---- MODULE Spec2Model ----
(***************************************************************************)
(* Verification model of the ckpool extensions of The Bitcoin Game:        *)
(*   - the lock-free event ring        (src/services/ckpool/src/event_ring.c)      *)
(*   - the relay client failover logic (src/services/ckpool/src/tbg_relay_client.c)*)
(*   - the token-bucket rate limiter   (src/services/ckpool/src/rate_limit.c)      *)
(* Each subsystem has its own variables, actions and specification; the    *)
(* variables of the other subsystems stay at their initial values.         *)
(***************************************************************************)
EXTENDS Integers, Sequences, FiniteSets, TLC

(***************************************************************************)
(* Bounds of the model (not program constants).                            *)
(***************************************************************************)
\* number of concurrent producer threads calling tbg_event_ring_push
NumProducers == 2
\* total number of tbg_event_ring_push calls explored with concurrent producers
MaxCalls == 5
\* total number of tbg_event_ring_push calls explored with a single producer
MaxSeqCalls == 6
\* number of empty, and of oversize, payloads among the pushes of the single producer
MaxOddPayloads == 1
\* number of times the flusher thread is started
MaxStarts == 1

\* relay client: time-stamps older than this many seconds are not told apart
Horizon == 16
\* relay client: a failover_timeout argument explored besides 0 (= the default)
ShortTimeout == 4

\* rate limiter: number of threads calling the connect / disconnect API
NumCallers == 2
\* rate limiter: number of times the clock is advanced
MaxAdvances == 3
\* rate limiter: largest connections_per_ip_per_minute configured explicitly
MaxPerMin == 3
\* tbg_rate_limit_check_conn calls made on the connection
MaxChecks == 3
\* rate limiter: how far disconnects without a connect take the global count
\* below zero
MaxUnmatched == 2
MaxSentParams == 9
MaxMetricOps == 3
MaxFormats == 1
MaxNow == 3
\* threads that call bucket_consume on the same bucket
NumConsumers == 2
\* calls of bucket_consume on the shared bucket
MaxConsumes == 4
\* seconds that pass while the shared bucket is used
MaxBucketNow == 2
\* max_tokens and refill_per_min of the shared bucket: one token a second
BucketCapacity == 1
BucketPerMin == 60
\* calls of send_msg on the relay client's connection
MaxTxFrames == 3
\* bytes of payload of a frame the relay client sends
MaxTxPayload == 2
\* REGISTER frames a peer sends on one connection
MaxRegisters == 2
NumWorkers == 2
MaxServerNow == 12
MaxAccepts == 2
\* relay client: calls of tbg_relay_send_block
MaxBlocks == 1
\* signature cache: refresh cycles
MaxCycles == 2
\* signature cache: writes to the Redis server
MaxWrites == 2
\* signature cache: addresses (keys user_coinbase:1 .. user_coinbase:NumAddrs)
NumAddrs == 2
\* relay framing: frames written to a connection
MaxFrames == 2
\* relay framing: longest payload written
MaxPayload == 2
\* memory pool: threads calling tbg_pool_alloc / tbg_pool_free
NumPoolThreads == 2
\* memory pool: tbg_pool_alloc calls made
MaxAllocs == 4
\* memory pool: largest max_items and initial_count passed to tbg_pool_init
MaxPoolItems == 3

(***************************************************************************)
(* Program constants of event_ring.h.  EVENT_RING_SIZE and EVENT_BATCH_MAX *)
(* are scaled down (4096 -> 4, 64 -> 2) keeping what the code relies on:   *)
(* the size is a power of two and the batch is smaller than the ring.      *)
(***************************************************************************)
EVENT_RING_SIZE == 4
EVENT_RING_MASK == EVENT_RING_SIZE - 1
EVENT_MAX_SIZE == 4096
EVENT_BATCH_MAX == 2
SLOT_EMPTY == 0
SLOT_WRITING == 1
SLOT_READY == 2

(***************************************************************************)
(* Program constants of tbg_relay.h and tbg_relay_client.c                 *)
(***************************************************************************)
TBG_RELAY_HB_INTERVAL == 3
TBG_RELAY_HB_TIMEOUT == 10
TBG_MSG_TEMPLATE == 1
TBG_MSG_HEARTBEAT == 2
TBG_MSG_BLOCK_FOUND == 3
TBG_MSG_CONFIG_SYNC == 4
TBG_MSG_REGISTER == 5
\* sleep(3) after a failed connect, tbg_relay_client.c:187
RECONNECT_SLEEP == 3
\* SO_RCVTIMEO of the receiver, tbg_relay_client.c:208
RECV_TIMEOUT == 2
\* the descriptor returned by a successful connect_to_primary()
CLIENT_SOCKET == 3

(***************************************************************************)
(* Program constants of rate_limit.h                                       *)
(***************************************************************************)
RATE_CONNECT_PER_MIN == 10
RATE_CONNECT_MAX_CONCURRENT == 50
RATE_SUBSCRIBE_PER_MIN == 3
RATE_AUTHORIZE_PER_MIN == 5
RATE_SUBMIT_PER_MIN == 1000
RATE_INVALID_PER_MIN == 100
RATE_GLOBAL_MAX_CONNS == 100000
\* rate_limit_type_t
RATE_CONNECT == 0
RATE_SUBSCRIBE == 1
RATE_AUTHORIZE == 2
RATE_SUBMIT == 3
RATE_INVALID_SHARE == 4
RATE_SOFTBAN_DURATION == 300
RATE_CLEANUP_INTERVAL == 60
RATE_STALE_THRESHOLD == 300
\* relay framing (tbg_relay.h); TBG_RELAY_MAX_MSG is scaled from 4 MiB
TBG_RELAY_MAGIC == <<84, 66, 71, 82>>
TBG_RELAY_MAGIC_LEN == 4
TBG_RELAY_VERSION == 1
TBG_RELAY_HDR_LEN == 12
TBG_RELAY_MAX_MSG == 2
\* errno values
EAGAIN == 11
ECONNRESET == 104
\* memory pool (memory_pool.h, memory_pool.c), sizes scaled: the first growth
\* of an empty pool (256), the least (64) and the largest (4096) growth, the
\* limit used for max_items = 0 (1000000)
POOL_INITIAL_SLABS == 3
POOL_GROW_MIN == 2
POOL_GROW_MAX == 4
POOL_MAX_ITEMS == 6
\* addresses from HeapBase on lie outside every slab
HeapBase == 100
\* width of uint32_t (rate_limit.h rate_bucket_t), scaled from 32
UintBits == 16

VARIABLES
  \* ---- one relay connection and its reader (tbg_relay_server.c peer_handler,
  \*      tbg_relay_client.c receiver_thread) ----
  link,             \* "none", "open", "peer_closed" (the writer closed its end)
                    \* or "closed" (the reader closed its descriptor)
  wire,             \* bytes written to the connection and not yet read
  s_rest,           \* send_msg: payload bytes of the frame not yet written
  xpc,              \* position of the reader: "none", "recv", "handle", "done"
  x_role,           \* "peer" (peer_handler) or "client" (receiver_thread)
  x_errno,          \* errno of the reader's thread
  x_ret,            \* what recv_msg returned: [status, type, payload, len, used]
  x_indep,          \* client_state.independent_mode
  x_cb,             \* template_callback is set
  \* ---- observation of the run (history) ----
  x_in,             \* the bytes on the wire when recv_msg was called
  delivered,        \* template_callback's calls: sequence of [payload, len]
  frames,           \* number of frames written
  \* ---- memory pool (memory_pool_t) ----
  pool,             \* [free_list, total_allocated, total_free, max_items,
                    \*  slab_count]; free_list is the chain of items, head first
  heap_next,        \* the next address aligned_alloc hands out outside the slabs
  mpc,              \* mpc[t]: position of thread t inside tbg_pool_alloc / _free
  m_item,           \* tbg_pool_alloc local item / tbg_pool_free argument item
  \* ---- observation of the run (history) ----
  live,             \* items returned by tbg_pool_alloc and not yet freed
  ret_live,         \* TRUE iff tbg_pool_alloc returned an item that was live
  allocs,           \* number of tbg_pool_alloc calls made
  \* ---- one token bucket and one refill of it (rate_limit.c, bucket_refill) ----
  bucket,           \* rate_bucket_t: [tokens, max_tokens, refill_per_min, last_refill]
  bucket_was,       \* the bucket as bucket_refill found it
  refill_at,        \* time(NULL) as that bucket_refill read it, 0 before the call
  \* ---- one connection's rate state (conn_rate_state_t) ----
  conn_state,       \* [subscribe_bucket, authorize_bucket, submit_bucket,
                    \*  invalid_bucket]
  \* ---- observation of the run (history) ----
  conn_was,         \* the last tbg_rate_limit_check_conn: [type, b], b the
                    \* bucket selected as the call found it
  conn_ret,         \* what that call returned
  checks,           \* number of tbg_rate_limit_check_conn calls made
  \* ---- rate limiter (rate_limit.c) ----
  now,              \* time(NULL) as the rate limiter reads it
  g_config,         \* static rate_limit_config_t g_config
  g_total_connections,
  ip_table,         \* the uthash table: a function from the known IPs to entries
  cpc,              \* position of cleanup_thread_func ("none" = no thread)
  c_cutoff,         \* cleanup_thread_func local cutoff
  c_wake,           \* earliest time at which the cleanup thread's sleep(60) returns
  tpc,              \* tpc[t]: position of caller t inside connect / disconnect
  t_ip,             \* tpc[t]'s argument ip
  \* ---- observation of the run (history) ----
  open,             \* open[ip]: connections admitted and not yet disconnected
  attempts,         \* attempts[ip]: connect calls returned since time last moved
  admitted,         \* admitted[ip]: those of them that returned true
  ban_until,        \* ban_until[ip]: end of the last soft-ban requested, 0 if none
  last_ok,          \* the connect that was admitted last, if the next call for
                    \* its ip is a disconnect: [ip, active, total] before it
  advances,         \* number of times the clock was advanced
  \* ---- tbg_get_user_sig and sig_lock (tbg_coinbase_sig.c) ----
  sig_lock,         \* the rwlock: held by a writer, number of readers
  lk,               \* the caller of tbg_get_user_sig: position, argument, result
  g_built,          \* the map built by the last cycle that reached the swap
  \* ---- parse_stratum_request (fuzz/fuzz_stratum_parser.c) ----
  req,              \* the stratum_request_t of the last call and what it returned
  \* ---- metrics (tbg_metrics.h, tbg_metrics.c) ----
  g_metrics,        \* the fields of the ckpool_metrics_t
  m_log,            \* the METRIC_ operations executed, in the order of execution
  m_fmt,            \* tbg_format_metrics: the field to print next, and buf
  \* ---- reconnect difficulty memory (tbg_vardiff.c) ----
  diff_cache,       \* the entries of the hash table: worker, diff, last_seen
  vd_running,
  vpc,              \* position of vardiff_persist_thread
  vd_now,           \* what time(NULL) returns
  vd_store,         \* the vardiff:<worker> keys of the Redis server
  vd_ret,           \* the last call of tbg_get_reconnect_diff and its result
  \* ---- relay server (tbg_relay_server.c) ----
  server_state,     \* running, peers, peer_count, peers_lock
  s_net,            \* time(NULL), the fds whose relay is connected, fds handed out
  handlers,         \* number of peer_handler threads running on each slot
  hb,               \* heartbeat_sender: position and locals
  tpl,              \* the caller of tbg_relay_push_template: position and locals
  \* ---- a peer of the primary and its REGISTER frames ----
  reg,              \* peer->region, the last REGISTER payload, frames handled
  \* ---- one token bucket used by several threads at once ----
  shared_bucket,    \* the rate_bucket_t
  consumer,         \* each thread inside bucket_consume: position and locals
  sb_now,           \* time(NULL)
  sb_taken,         \* history: calls of bucket_consume that returned true
  sb_calls,         \* history: calls of bucket_consume begun
  \* ---- the relay client's threads writing to one connection ----
  tx,               \* each thread inside send_msg: position and locals
  tx_stream,        \* what send() has put on the connection, in order
  tx_frames,        \* history: calls of send_msg begun
  \* ---- a caller of tbg_validate_sig ----
  v_call,           \* the last call: its argument and what it returned
  \* ---- signature cache (tbg_coinbase_sig.c) ----
  sig_cache,        \* the in-memory map: a set of [address, sig] entries
  sig_running,      \* the refresh thread was started
  sig_redis_url,    \* the configured Redis URL
  gpc,              \* position of sig_refresh_thread
  new_cache,        \* refresh_from_redis: the map being built
  ctx_err,          \* refresh_from_redis: ctx->err, the connection has failed
  ctx_db,           \* the database the connection has selected
  cursor,           \* refresh_from_redis: the SCAN cursor
  keys,             \* refresh_from_redis: keys of the SCAN reply
  k_i,              \* refresh_from_redis: index into keys
  store,            \* the Redis server: a set of [db, address, value]
  \* ---- observation of the run (history) ----
  g_before,         \* sig_cache when the cycle began
  g_failed,         \* a step of the cycle has failed
  g_cycles,         \* refresh cycles begun
  g_writes,         \* writes made to the Redis server
  \* ---- a caller of tbg_relay_send_block ----
  bpc,              \* position inside tbg_relay_send_block
  b_fd,             \* the descriptor passed to send_msg
  \* ---- observation of the run (history) ----
  b_ret,            \* what the last call returned
  b_wrote,          \* BLOCK_FOUND frames the last call wrote
  b_calls,          \* number of calls made
  \* ---- relay client (tbg_relay_client_state_t) ----
  client_fd,        \* client_state.fd
  connected,        \* client_state.connected
  independent_mode, \* client_state.independent_mode
  last_heartbeat,   \* client_state.last_heartbeat
  failover_timeout, \* client_state.failover_timeout
  rpc,              \* position of receiver_thread
  r_wake,           \* time at which the receiver's sleep(3) or recv timeout ends
  r_fd,             \* descriptor the receiver passed to recv_msg
  hpc,              \* position of heartbeat_monitor
  h_wake,           \* time at which the monitor's sleep ends
  h_elapsed,        \* heartbeat_monitor local elapsed
  \* ---- the primary and the TCP connection ----
  primary_up,       \* the primary accepts connections
  conn_open,        \* the connection of client_fd is alive at the primary's end
  inbox,            \* message types sent by the primary, not yet read by the client
  \* ---- observation of the run (history) ----
  last_msg,         \* time at which recv_msg last returned a message of the primary
  \* ---- event ring (event_ring_t) ----
  slots,            \* slots[i] = [state, len, data]; data = id of the payload copied in
  write_pos,
  read_pos,
  events_queued,
  events_sent,
  events_dropped,
  batch_count,
  flusher_running,  \* static volatile int flusher_running
  \* ---- flusher thread ----
  fpc,              \* position of the flusher thread ("none" = no thread)
  f_final,          \* TRUE while in the final drain of flusher_thread_func
  f_read_pos,       \* flush_batch local read_pos
  f_iov,            \* flush_batch locals iov[] / positions[]: seq of [pos, len]
  f_i,              \* flush_batch loop index of the send loop
  f_slept,          \* TRUE iff the last pass of the flusher loop called usleep
  spc,              \* position of the caller of tbg_event_ring_stop_flusher
  \* ---- producers ----
  ppc,              \* ppc[p]: position of producer p inside tbg_event_ring_push
  p_pos,            \* push local pos
  p_json,           \* push argument: [id, len] (the caller's buffer)
  p_len,            \* push local len (after truncation)
  \* ---- observation of the run (history) ----
  calls,            \* number of tbg_event_ring_push calls made so far
  claimed,          \* claimed[pos+1] = payload whose push claimed write position pos
  rets,             \* rets[id] = return value of the push call with payload id
  sent,             \* sequence of datagrams handed to send(): [id, len, st]
  starts,           \* number of times the flusher thread was started
  quiet             \* TRUE iff no push was in progress when the flusher was last
                    \* started and no push was called since

ringVars == <<slots, write_pos, read_pos, events_queued, events_sent,
              events_dropped, batch_count, flusher_running, fpc, f_final,
              f_read_pos, f_iov, f_i, f_slept, spc, ppc, p_pos, p_json, p_len,
              calls, claimed, rets, sent, starts, quiet>>

relayVars == <<client_fd, connected, independent_mode, last_heartbeat,
               failover_timeout, rpc, r_wake, r_fd, hpc, h_wake, h_elapsed,
               primary_up, conn_open, inbox, last_msg>>

rateVars == <<now, g_config, g_total_connections, ip_table, cpc, c_cutoff,
              c_wake, tpc, t_ip, open, attempts, admitted, ban_until, last_ok,
              advances>>

refillVars == <<bucket, bucket_was, refill_at>>

connVars == <<conn_state, conn_was, conn_ret, checks>>

blockVars == <<bpc, b_fd, b_ret, b_wrote, b_calls>>

validateVars == <<v_call>>

lookupVars == <<sig_lock, lk, g_built>>

parseVars == <<req>>

metricVars == <<g_metrics, m_log, m_fmt>>

vardiffVars == <<diff_cache, vd_running, vpc, vd_now, vd_store, vd_ret>>

serverVars == <<server_state, s_net, handlers, hb, tpl>>

regVars == <<reg>>

shareVars == <<shared_bucket, consumer, sb_now, sb_taken, sb_calls>>

txVars == <<tx, tx_stream, tx_frames>>

sigVars == <<sig_cache, sig_running, sig_redis_url, gpc, new_cache, ctx_err,
             ctx_db, cursor, keys, k_i, store, g_before, g_failed, g_cycles,
             g_writes>>

poolVars == <<pool, heap_next, mpc, m_item, live, ret_live, allocs>>

linkVars == <<link, wire, s_rest, xpc, x_role, x_errno, x_ret, x_indep, x_cb,
              x_in, delivered, frames>>

vars == <<ringVars, relayVars, rateVars, refillVars, connVars, poolVars,
        linkVars, blockVars, sigVars, validateVars, lookupVars, parseVars,
        metricVars, vardiffVars, serverVars, regVars, shareVars, txVars>>

Producers == 1..NumProducers
SlotIdx == 0..(EVENT_RING_SIZE - 1)
\* payload lengths offered to push: empty, ordinary, oversize
PayloadLens == {0, 5, EVENT_MAX_SIZE}

\* a & b on non-negative integers, as the code's  pos & EVENT_RING_MASK
RECURSIVE BitAnd(_, _)
BitAnd(a, b) ==
  IF a = 0 \/ b = 0 THEN 0
  ELSE (a % 2) * (b % 2) + 2 * BitAnd(a \div 2, b \div 2)

\* the bytes a slot holds: the first len bytes of the payload with this id
NoData == 0

(***************************************************************************)
(* tbg_event_ring_init                                                     *)
(***************************************************************************)
tbg_event_ring_init ==
  /\ slots = [i \in SlotIdx |-> [state |-> SLOT_EMPTY, len |-> 0, data |-> NoData]]
  /\ write_pos = 0
  /\ read_pos = 0
  /\ events_queued = 0
  /\ events_sent = 0
  /\ events_dropped = 0
  /\ batch_count = 0

InitRing ==
  /\ tbg_event_ring_init
  /\ flusher_running = 0
  /\ fpc = "none"
  /\ f_final = FALSE
  /\ f_read_pos = 0
  /\ f_iov = <<>>
  /\ f_i = 0
  /\ f_slept = FALSE
  /\ spc = "idle"
  /\ ppc = [p \in Producers |-> "idle"]
  /\ p_pos = [p \in Producers |-> 0]
  /\ p_json = [p \in Producers |-> [id |-> 0, len |-> 0]]
  /\ p_len = [p \in Producers |-> 0]
  /\ calls = 0
  /\ claimed = <<>>
  /\ rets = <<>>
  /\ sent = <<>>
  /\ starts = 0
  /\ quiet = FALSE

Callers == 1..NumCallers
IPs == {"10.0.0.1", "10.0.0.2"}
\* no admitted connect is being followed
NoConnect == [ip |-> "", active |-> 0, total |-> 0]
\* static storage before tbg_rate_limit_init
ZeroConfig == [connections_per_ip_per_minute |-> 0, max_connections_per_ip |-> 0,
               max_subscribes_per_minute |-> 0, max_authorizes_per_minute |-> 0,
               max_shares_per_minute |-> 0, max_invalid_shares_per_minute |-> 0,
               global_max_connections |-> 0, softban_duration_seconds |-> 0]

\* the rate limiter before tbg_rate_limit_init: static storage, no thread
InitRate ==
  /\ now = 0
  /\ g_config = ZeroConfig
  /\ g_total_connections = 0
  /\ ip_table = <<>>
  /\ cpc = "none"
  /\ c_cutoff = 0
  /\ c_wake = 0
  /\ tpc = [t \in Callers |-> "idle"]
  /\ t_ip = [t \in Callers |-> ""]
  /\ open = [ip \in IPs |-> 0]
  /\ attempts = [ip \in IPs |-> 0]
  /\ admitted = [ip \in IPs |-> 0]
  /\ ban_until = [ip \in IPs |-> 0]
  /\ last_ok = NoConnect
  /\ advances = 0

\* a rate_bucket_t in zeroed memory
ZeroBucket == [tokens |-> 0, max_tokens |-> 0, refill_per_min |-> 0,
               last_refill |-> 0]

\* a null pointer passed where a string is expected; the bytes of a string
\* are 1..255
NullPtr == <<-1>>

\* tbg_validate_sig was not called
InitValidate == v_call = [sig |-> NullPtr, ret |-> FALSE, made |-> FALSE]

\* the fields of ckpool_metrics_t that are modelled, in the order in which
\* tbg_format_metrics prints them: three counters (uint64_t), two gauges
\* (int64_t)
MetricFields == <<"shares_valid", "shares_invalid", "connected_miners",
                  "bitcoin_height", "total_diff_accepted">>
Counters == {"shares_valid", "shares_invalid", "total_diff_accepted"}
Gauges == {"connected_miners", "bitcoin_height"}

\* buf before a field is printed
NoText == <<>>

\* ckpool_metrics_t g_metrics = {0}; nothing was formatted
InitMetrics ==
  /\ g_metrics = [f \in Counters \cup Gauges |-> 0]
  /\ m_log = <<>>
  /\ m_fmt = [i |-> 0, body |-> [f \in Counters \cup Gauges |-> NoText],
              calls |-> 0]

\* diff_cache = NULL, vd_running = 0, no thread; the Redis server holds no
\* vardiff key
InitVardiff ==
  /\ diff_cache = {}
  /\ vd_running = 0
  /\ vpc = "none"
  /\ vd_now = 0
  /\ vd_store = {}
  /\ vd_ret = [worker |-> 0, result |-> 0]

\* TBG_RELAY_MAX_PEERS is 16 in tbg_relay.h
TBG_RELAY_MAX_PEERS == 2
Slots == 0..(TBG_RELAY_MAX_PEERS - 1)

\* a tbg_relay_peer_t after memset(.., 0, ..)
ZeroPeer == [fd |-> 0, last_heartbeat |-> 0, active |-> FALSE]

\* static tbg_relay_server_state_t server_state: zeroed, no thread runs
InitServer ==
  /\ server_state = [running |-> FALSE, peers |-> [i \in Slots |-> ZeroPeer],
                     peer_count |-> 0, peers_lock |-> "free"]
  /\ s_net = [now |-> 0, conns |-> {}, fds |-> 0]
  /\ handlers = [i \in Slots |-> 0]
  /\ hb = [pc |-> "none", now |-> 0, i |-> 0, sent |-> FALSE, wake |-> 0]
  /\ tpl = [pc |-> "idle", i |-> 0, failed |-> FALSE]

\* "unknown", line 289 of tbg_relay_server.c
Unknown == <<117, 110, 107, 110, 111, 119, 110>>

\* a peer as listener_thread sets it up: strcpy(peer->region, "unknown")
InitRegister ==
  reg = [region |-> Unknown, was |-> Unknown, payload |-> <<>>, handled |-> 0]

\* a thread outside bucket_consume
IdleConsumer == [pc |-> "idle", now |-> 0, to_add |-> 0, current |-> 0]

\* bucket_init(b, BucketCapacity, BucketPerMin) at time 0, lines 49-55
InitShare ==
  /\ shared_bucket = [tokens |-> BucketCapacity, max_tokens |-> BucketCapacity,
                      refill_per_min |-> BucketPerMin, last_refill |-> 0]
  /\ consumer = [t \in 1..NumConsumers |-> IdleConsumer]
  /\ sb_now = 0
  /\ sb_taken = 0
  /\ sb_calls = 0

\* the threads of the relay client that call send_msg
Senders == {"receiver", "monitor", "caller"}

\* a thread outside send_msg
NoSend == [pc |-> "idle", frame |-> 0, left |-> 0]

\* the receiver has connected and set connected = true (line 191); nothing
\* was written to the connection
InitTx ==
  /\ tx = [s \in Senders |-> NoSend]
  /\ tx_stream = <<>>
  /\ tx_frames = 0

\* stratum_method_t
METHOD_UNKNOWN == 0
METHOD_SUBSCRIBE == 1
METHOD_AUTHORIZE == 2
METHOD_SUBMIT == 3
METHOD_CONFIGURE == 4
METHOD_SUGGEST_DIFFICULTY == 5
METHOD_EXTRANONCE_SUBSCRIBE == 6

\* memset(req, 0, sizeof(*req)); found_method is the local of
\* parse_stratum_request, pc its position, ret what it returns
ZeroRequest == [has_id |-> 0, method |-> METHOD_UNKNOWN, method_str |-> "",
                param_count |-> 0, valid |-> 0, found_method |-> 0,
                pc |-> "members", ret |-> 0]

\* parse_stratum_request was not called
InitParse == req = [ZeroRequest EXCEPT !.pc = "idle"]

\* HASH_FIND_STR found no entry: tbg_get_user_sig returns NULL
NotFound == [found |-> FALSE, sig |-> <<>>]

\* PTHREAD_RWLOCK_INITIALIZER; no call of tbg_get_user_sig was made
InitLookup ==
  /\ sig_lock = [writer |-> FALSE, readers |-> 0]
  /\ lk = [pc |-> "idle", address |-> 0, result |-> NotFound, freed |-> FALSE]
  /\ g_built = {}

\* sig_redis_url = NULL
NoURL == [set |-> FALSE, db |-> 0]

\* the statics of tbg_coinbase_sig.c before tbg_sig_cache_init, and a Redis
\* server without keys
InitSig ==
  /\ sig_cache = {}
  /\ sig_running = 0
  /\ sig_redis_url = NoURL
  /\ gpc = "none"
  /\ new_cache = {}
  /\ ctx_err = FALSE
  /\ ctx_db = 0
  /\ cursor = 0
  /\ keys = <<>>
  /\ k_i = 0
  /\ store = {}
  /\ g_before = {}
  /\ g_failed = FALSE
  /\ g_cycles = 0
  /\ g_writes = 0

\* no call of tbg_relay_send_block was made
InitBlock ==
  /\ bpc = "idle"
  /\ b_fd = 0
  /\ b_ret = 0
  /\ b_wrote = 0
  /\ b_calls = 0

\* recv_msg has not returned
NoRet == [status |-> "none", type |-> 0, payload |-> <<>>, len |-> 0, used |-> 0]

\* no connection, no reader thread
InitLink ==
  /\ link = "none"
  /\ wire = <<>>
  /\ s_rest = <<>>
  /\ xpc = "none"
  /\ x_role = "none"
  /\ x_errno = 0
  /\ x_ret = NoRet
  /\ x_indep = FALSE
  /\ x_cb = FALSE
  /\ x_in = <<>>
  /\ delivered = <<>>
  /\ frames = 0

PoolThreads == 1..NumPoolThreads
\* the NULL pointer
NULL == 0
\* a memory_pool_t before tbg_pool_init
ZeroPool == [free_list |-> <<>>, total_allocated |-> 0, total_free |-> 0,
             max_items |-> 0, slab_count |-> 0]

InitPool ==
  /\ pool = ZeroPool
  /\ heap_next = HeapBase
  /\ mpc = [t \in PoolThreads |-> "idle"]
  /\ m_item = [t \in PoolThreads |-> NULL]
  /\ live = {}
  /\ ret_live = FALSE
  /\ allocs = 0

\* a conn_rate_state_t before tbg_rate_limit_conn_init: zeroed memory
ZeroConnState == [subscribe_bucket |-> ZeroBucket, authorize_bucket |-> ZeroBucket,
                  submit_bucket |-> ZeroBucket, invalid_bucket |-> ZeroBucket]

InitConn ==
  /\ conn_state = ZeroConnState
  /\ conn_was = [type |-> RATE_CONNECT, b |-> ZeroBucket]
  /\ conn_ret = TRUE
  /\ checks = 0

\* no bucket has been set up
InitRefill ==
  /\ bucket = ZeroBucket
  /\ bucket_was = ZeroBucket
  /\ refill_at = 0

\* the relay client before tbg_relay_client_init: static storage is zeroed, no
\* thread runs
InitRelay ==
  /\ client_fd = 0
  /\ connected = FALSE
  /\ independent_mode = FALSE
  /\ last_heartbeat = 0
  /\ failover_timeout = 0
  /\ rpc = "none"
  /\ r_wake = 0
  /\ r_fd = 0
  /\ hpc = "none"
  /\ h_wake = 0
  /\ h_elapsed = 0
  /\ primary_up = FALSE
  /\ conn_open = FALSE
  /\ inbox = <<>>
  /\ last_msg = 0

\* what a step of the event ring leaves alone
RingFrame == UNCHANGED <<relayVars, rateVars, refillVars, connVars, poolVars,
        linkVars, blockVars, sigVars, validateVars, lookupVars, parseVars,
        metricVars, vardiffVars, serverVars, regVars, shareVars, txVars>>

flusherVars == <<flusher_running, fpc, f_final, f_read_pos, f_iov, f_i, f_slept,
                 spc, starts>>
counterVars == <<events_queued, events_sent, events_dropped, batch_count>>

(***************************************************************************)
(* tbg_event_ring_push, one action per access to shared memory             *)
(***************************************************************************)
\* lines 57-66: argument checks, truncation, fetch_add on write_pos
PushClaim(p, len, maxCalls) ==
  /\ RingFrame
  /\ ppc[p] = "idle"
  \* the producer threads are interchangeable: the idle thread of least
  \* index makes the next call
  /\ \A q \in Producers : q < p => ppc[q] # "idle"
  /\ calls < maxCalls
  /\ calls' = calls + 1
  /\ IF len = 0
     THEN \* if (!ring || !json || len == 0) return false;
          /\ rets' = Append(rets, FALSE)
          /\ UNCHANGED <<write_pos, p_pos, p_json, p_len, ppc, claimed>>
     ELSE /\ p_json' = [p_json EXCEPT ![p] = [id |-> calls + 1, len |-> len]]
          /\ p_len' = [p_len EXCEPT ![p] =
                         IF len >= EVENT_MAX_SIZE THEN EVENT_MAX_SIZE - 1 ELSE len]
          /\ p_pos' = [p_pos EXCEPT ![p] = write_pos]
          /\ write_pos' = write_pos + 1
          /\ claimed' = Append(claimed, [id |-> calls + 1, len |-> len])
          /\ rets' = Append(rets, FALSE)
          /\ ppc' = [ppc EXCEPT ![p] = "cas"]
  /\ quiet' = FALSE
  /\ UNCHANGED <<slots, read_pos, counterVars, flusherVars, sent>>

\* PushCas with the test weakened to "not being written": a READY slot is
\* claimed again
PushCas_ClaimsReady(p) ==
  /\ RingFrame
  /\ ppc[p] = "cas"
  /\ LET idx == BitAnd(p_pos[p], EVENT_RING_MASK) IN
       IF slots[idx].state # SLOT_WRITING
       THEN /\ slots' = [slots EXCEPT ![idx].state = SLOT_WRITING]
            /\ ppc' = [ppc EXCEPT ![p] = "write"]
       ELSE /\ ppc' = [ppc EXCEPT ![p] = "drop"]
            /\ UNCHANGED slots
  /\ UNCHANGED <<write_pos, read_pos, counterVars, flusherVars, p_pos, p_json,
                 p_len, calls, claimed, rets, sent, quiet>>

\* lines 69-71: compare-and-swap of the slot state EMPTY -> WRITING
PushCas(p) ==
  /\ RingFrame
  /\ ppc[p] = "cas"
  /\ LET idx == BitAnd(p_pos[p], EVENT_RING_MASK) IN
       IF slots[idx].state = SLOT_EMPTY
       THEN /\ slots' = [slots EXCEPT ![idx].state = SLOT_WRITING]
            /\ ppc' = [ppc EXCEPT ![p] = "write"]
       ELSE /\ ppc' = [ppc EXCEPT ![p] = "drop"]
            /\ UNCHANGED slots
  /\ UNCHANGED <<write_pos, read_pos, counterVars, flusherVars, p_pos, p_json,
                 p_len, calls, claimed, rets, sent, quiet>>

\* the locals of a push that has returned
NoCall == [id |-> 0, len |-> 0]

\* lines 73-74: the slot is occupied, count the drop and return false
PushDrop(p) ==
  /\ RingFrame
  /\ ppc[p] = "drop"
  /\ events_dropped' = events_dropped + 1
  /\ ppc' = [ppc EXCEPT ![p] = "idle"]
  /\ p_pos' = [p_pos EXCEPT ![p] = 0]
  /\ p_json' = [p_json EXCEPT ![p] = NoCall]
  /\ p_len' = [p_len EXCEPT ![p] = 0]
  /\ UNCHANGED <<slots, write_pos, read_pos, events_queued, events_sent,
                 batch_count, flusherVars, calls, claimed, rets, sent, quiet>>

\* lines 78-80: memcpy of len bytes, terminator, slot->len
PushWrite(p) ==
  /\ RingFrame
  /\ ppc[p] = "write"
  /\ LET idx == BitAnd(p_pos[p], EVENT_RING_MASK) IN
       slots' = [slots EXCEPT ![idx].data = p_json[p].id, ![idx].len = p_len[p]]
  /\ ppc' = [ppc EXCEPT ![p] = "publish"]
  /\ UNCHANGED <<write_pos, read_pos, counterVars, flusherVars, p_pos, p_json,
                 p_len, calls, claimed, rets, sent, quiet>>

\* line 83: atomic_store(&slot->state, SLOT_READY)
PushPublish(p) ==
  /\ RingFrame
  /\ ppc[p] = "publish"
  /\ LET idx == BitAnd(p_pos[p], EVENT_RING_MASK) IN
       slots' = [slots EXCEPT ![idx].state = SLOT_READY]
  /\ ppc' = [ppc EXCEPT ![p] = "count"]
  /\ UNCHANGED <<write_pos, read_pos, counterVars, flusherVars, p_pos, p_json,
                 p_len, calls, claimed, rets, sent, quiet>>

\* lines 84-86: events_queued++, return true
PushCount(p) ==
  /\ RingFrame
  /\ ppc[p] = "count"
  /\ events_queued' = events_queued + 1
  /\ rets' = [rets EXCEPT ![p_json[p].id] = TRUE]
  /\ ppc' = [ppc EXCEPT ![p] = "idle"]
  /\ p_pos' = [p_pos EXCEPT ![p] = 0]
  /\ p_json' = [p_json EXCEPT ![p] = NoCall]
  /\ p_len' = [p_len EXCEPT ![p] = 0]
  /\ UNCHANGED <<slots, write_pos, read_pos, events_sent, events_dropped,
                 batch_count, flusherVars, calls, claimed, sent, quiet>>

PushSteps(p) ==
  \/ PushCas(p)
  \/ PushDrop(p)
  \/ PushWrite(p)
  \/ PushPublish(p)
  \/ PushCount(p)

producerVars == <<ppc, p_pos, p_json, p_len, calls, claimed, rets>>

(***************************************************************************)
(* tbg_event_ring_start_flusher / tbg_event_ring_stop_flusher              *)
(***************************************************************************)
\* socket_fd >= 0 and pthread_create succeeds; the other cases change nothing
tbg_event_ring_start_flusher ==
  /\ RingFrame
  /\ starts < MaxStarts
  /\ flusher_running = 0
  /\ fpc = "none"
  /\ spc = "idle"
  /\ flusher_running' = 1
  /\ fpc' = "loop"
  /\ starts' = starts + 1
  /\ quiet' = (\A p \in Producers : ppc[p] = "idle")
  /\ UNCHANGED <<slots, write_pos, read_pos, counterVars, f_final, f_read_pos,
                 f_iov, f_i, f_slept, spc, producerVars, sent>>

\* lines 186-190: clear the flag, then block in pthread_join
StopFlusherSignal ==
  /\ RingFrame
  /\ spc = "idle"
  /\ flusher_running = 1
  /\ flusher_running' = 0
  /\ spc' = "join"
  /\ UNCHANGED <<slots, write_pos, read_pos, counterVars, fpc, f_final,
                 f_read_pos, f_iov, f_i, f_slept, producerVars, sent, starts, quiet>>

\* lines 190-191: pthread_join returns once the thread has exited
StopFlusherJoin ==
  /\ RingFrame
  /\ spc = "join"
  /\ fpc = "done"
  /\ fpc' = "none"
  /\ spc' = "idle"
  /\ UNCHANGED <<slots, write_pos, read_pos, counterVars, flusher_running,
                 f_final, f_read_pos, f_iov, f_i, f_slept, producerVars, sent,
                 starts, quiet>>

tbg_event_ring_stop_flusher == StopFlusherSignal \/ StopFlusherJoin

(***************************************************************************)
(* flusher_thread_func and flush_batch                                     *)
(***************************************************************************)
\* line 149 / 159: while (flusher_running) flush_batch(); then the final drain
FlusherLoop ==
  /\ RingFrame
  /\ fpc = "loop"
  /\ f_final' = (flusher_running = 0)
  /\ fpc' = "load"
  /\ UNCHANGED <<slots, write_pos, read_pos, counterVars, flusher_running,
                 f_read_pos, f_iov, f_i, f_slept, spc, producerVars, sent, starts, quiet>>

\* line 99: read_pos = atomic_load(&ring->read_pos); count = 0
FlushLoad ==
  /\ RingFrame
  /\ fpc = "load"
  /\ f_read_pos' = read_pos
  /\ f_iov' = <<>>
  /\ f_i' = 0
  /\ fpc' = "scan"
  /\ UNCHANGED <<slots, write_pos, read_pos, counterVars, flusher_running,
                 f_final, f_slept, spc, producerVars, sent, starts, quiet>>

\* position reached when flush_batch returns
AfterBatch == IF f_final THEN "done" ELSE "idlecheck"

\* FlushScan starting one slot too far
FlushScan_OffByOne ==
  /\ RingFrame
  /\ fpc = "scan"
  /\ LET count == Len(f_iov)
         idx == BitAnd(f_read_pos + count + 1, EVENT_RING_MASK)
     IN IF count < EVENT_BATCH_MAX /\ slots[idx].state = SLOT_READY
        THEN /\ f_iov' = Append(f_iov, [pos |-> idx, len |-> slots[idx].len])
             /\ UNCHANGED fpc
        ELSE /\ fpc' = IF count = 0 THEN AfterBatch ELSE "send"
             /\ UNCHANGED f_iov
  /\ UNCHANGED <<slots, write_pos, read_pos, counterVars, flusher_running,
                 f_final, f_read_pos, f_i, f_slept, spc, producerVars, sent,
                 starts, quiet>>

\* lines 102-116: one iteration of the collecting loop
FlushScan ==
  /\ RingFrame
  /\ fpc = "scan"
  /\ LET count == Len(f_iov)
         idx == BitAnd(f_read_pos + count, EVENT_RING_MASK)
     IN IF count < EVENT_BATCH_MAX /\ slots[idx].state = SLOT_READY
        THEN /\ f_iov' = Append(f_iov, [pos |-> idx, len |-> slots[idx].len])
             /\ UNCHANGED fpc
        ELSE /\ fpc' = IF count = 0 THEN AfterBatch ELSE "send"
             /\ UNCHANGED f_iov
  /\ UNCHANGED <<slots, write_pos, read_pos, counterVars, flusher_running,
                 f_final, f_read_pos, f_i, f_slept, spc, producerVars, sent, starts, quiet>>

\* FlushSend that forgets to store SLOT_EMPTY
FlushSend_KeepsReady ==
  /\ RingFrame
  /\ fpc = "send"
  /\ LET e == f_iov[f_i + 1] IN
       sent' = Append(sent, [id |-> slots[e.pos].data, len |-> e.len,
                             st |-> slots[e.pos].state])
  /\ f_i' = f_i + 1
  /\ fpc' = IF f_i + 1 < Len(f_iov) THEN "send" ELSE "advance"
  /\ UNCHANGED <<slots, write_pos, read_pos, counterVars, flusher_running, f_final,
                 f_read_pos, f_iov, f_slept, spc, producerVars, starts, quiet>>

\* lines 124-137: send() of iov[i], then the slot is stored EMPTY whatever
\* send returned
FlushSend ==
  /\ RingFrame
  /\ fpc = "send"
  /\ LET e == f_iov[f_i + 1] IN
       /\ sent' = Append(sent, [id |-> slots[e.pos].data, len |-> e.len,
                                st |-> slots[e.pos].state])
       /\ slots' = [slots EXCEPT ![e.pos].state = SLOT_EMPTY]
  /\ f_i' = f_i + 1
  /\ fpc' = IF f_i + 1 < Len(f_iov) THEN "send" ELSE "advance"
  /\ UNCHANGED <<write_pos, read_pos, counterVars, flusher_running, f_final,
                 f_read_pos, f_iov, f_slept, spc, producerVars, starts, quiet>>

\* FlushAdvance that advances by the batch size instead of the count
FlushAdvance_ByBatchMax ==
  /\ RingFrame
  /\ fpc = "advance"
  /\ read_pos' = read_pos + EVENT_BATCH_MAX
  /\ events_sent' = events_sent + Len(f_iov)
  /\ batch_count' = batch_count + 1
  /\ fpc' = AfterBatch
  /\ f_iov' = <<>>
  /\ f_i' = 0
  /\ UNCHANGED <<slots, write_pos, events_queued, events_dropped,
                 flusher_running, f_final, f_read_pos, f_slept,
                 spc, producerVars, sent, starts, quiet>>

\* lines 140-142: read_pos += count; events_sent += count; batch_count++
FlushAdvance ==
  /\ RingFrame
  /\ fpc = "advance"
  /\ read_pos' = read_pos + Len(f_iov)
  /\ events_sent' = events_sent + Len(f_iov)
  /\ batch_count' = batch_count + 1
  /\ fpc' = AfterBatch
  /\ f_iov' = <<>>   \* the locals die when flush_batch returns
  /\ f_i' = 0
  /\ UNCHANGED <<slots, write_pos, events_queued, events_dropped,
                 flusher_running, f_final, f_read_pos, f_slept,
                 spc, producerVars, sent, starts, quiet>>

flush_batch == FlushLoad \/ FlushScan \/ FlushSend \/ FlushAdvance

\* lines 153-155: usleep only if write_pos == read_pos
FlusherIdleCheck ==
  /\ RingFrame
  /\ fpc = "idlecheck"
  /\ f_slept' = (write_pos = read_pos)
  /\ fpc' = "loop"
  /\ UNCHANGED <<slots, write_pos, read_pos, counterVars, flusher_running,
                 f_final, f_read_pos, f_iov, f_i, spc, producerVars, sent, starts, quiet>>

flusher_thread_func == FlusherLoop \/ flush_batch \/ FlusherIdleCheck

\* concurrent producers and the flusher thread
NextRing ==
  \/ \E p \in Producers : PushClaim(p, 5, MaxCalls)
  \/ \E p \in Producers : PushSteps(p)
  \/ tbg_event_ring_start_flusher
  \/ flusher_thread_func

\* one producer thread (a sequence of pushes), payloads of every kind; the
\* flusher, once started, keeps running
Oversize == {i \in 1..Len(claimed) : claimed[i].len >= EVENT_MAX_SIZE}

NextRingSeq ==
  \/ \E len \in PayloadLens :
        /\ len = 0 => calls - Len(claimed) < MaxOddPayloads
        /\ len >= EVENT_MAX_SIZE => Cardinality(Oversize) < MaxOddPayloads
        /\ PushClaim(1, len, MaxSeqCalls)
  \/ PushSteps(1)
  \/ tbg_event_ring_start_flusher
  \/ flusher_thread_func

Init == InitRing /\ InitRelay /\ InitRate /\ InitRefill /\ InitConn
          /\ InitPool /\ InitLink /\ InitBlock /\ InitSig /\ InitValidate
  /\ InitLookup /\ InitParse /\ InitMetrics /\ InitVardiff
  /\ InitServer /\ InitRegister /\ InitShare /\ InitTx

Next == NextRing

Spec == Init /\ [][Next]_vars

SpecRingSeq == Init /\ [][NextRingSeq]_vars

\* Every thread that can take a step eventually takes it; new push calls are
\* not forced (pushes may stop arriving).
\* one producer thread pushing ordinary payloads, and the flusher
NextRingPlain ==
  \/ PushClaim(1, 5, MaxSeqCalls)
  \/ PushSteps(1)
  \/ tbg_event_ring_start_flusher
  \/ flusher_thread_func

FairSpecRing ==
  /\ Init
  /\ [][NextRingPlain]_vars
  /\ WF_vars(PushSteps(1))
  /\ WF_vars(tbg_event_ring_start_flusher)
  /\ WF_vars(flusher_thread_func)

(***************************************************************************)
(* Claims about the event ring                                             *)
(***************************************************************************)

\* C1: with the flusher running, every event whose push returned true is
\* eventually sent and its slot returned to EMPTY, even when no further pushes
\* arrive: a slot published READY eventually becomes EMPTY again.
C1_EveryReadySlotDrains ==
  \A i \in SlotIdx : (slots[i].state = SLOT_READY) ~> (slots[i].state = SLOT_EMPTY)

\* what the drainer emits for a pushed payload: its first EVENT_MAX_SIZE - 1 bytes
Truncated(pl) ==
  [id |-> pl.id, len |-> IF pl.len >= EVENT_MAX_SIZE THEN EVENT_MAX_SIZE - 1 ELSE pl.len]

SentPayloads == [i \in 1..Len(sent) |-> [id |-> sent[i].id, len |-> sent[i].len]]

IsPrefix(a, b) == Len(a) <= Len(b) /\ \A i \in 1..Len(a) : a[i] = b[i]

NoSlotReady == \A i \in SlotIdx : slots[i].state # SLOT_READY

\* the case of C2: n <= EVENT_RING_SIZE pushes of non-empty payloads were made
\* and had returned while the flusher was not running, then the ring is drained
C2_Case ==
  /\ starts = 1
  /\ quiet
  /\ calls = Len(claimed)
  /\ Len(claimed) <= EVENT_RING_SIZE

\* C2 as stated: every push returns true and the drain yields every pushed
\* payload (as pushed) exactly once, in the order of the claimed write
\* positions.
C2_DrainYieldsPushedPayloads ==
  C2_Case =>
    /\ \A i \in 1..calls : rets[i]
    /\ IsPrefix(SentPayloads, claimed)
    /\ NoSlotReady => SentPayloads = claimed

\* C2 amended: every push returns true and the drain yields, exactly once and
\* in the order of the claimed write positions, every pushed payload cut to
\* its first EVENT_MAX_SIZE - 1 bytes.
C2_DrainYieldsTruncatedPayloads ==
  C2_Case =>
    /\ \A i \in 1..calls : rets[i]
    /\ events_dropped = 0
    /\ IsPrefix(SentPayloads, [i \in 1..Len(claimed) |-> Truncated(claimed[i])])
    /\ NoSlotReady => SentPayloads = [i \in 1..Len(claimed) |-> Truncated(claimed[i])]

C2_Witness ==
  /\ C2_Case
  /\ Len(claimed) = EVENT_RING_SIZE
  /\ NoSlotReady
  /\ Len(sent) = EVENT_RING_SIZE
  /\ Oversize # {}

\* the case of C3: the flusher has never run and the first EVENT_RING_SIZE
\* pushes all returned true
C3_Case ==
  /\ starts = 0
  /\ ppc[1] = "idle"
  /\ calls >= EVENT_RING_SIZE
  /\ \A i \in 1..EVENT_RING_SIZE : rets[i]

\* C3 as stated: every further push returns false, and after the (N+k)th push
\* events_dropped = k.
C3_DropCounterCountsFurtherPushes ==
  C3_Case =>
    /\ \A i \in (EVENT_RING_SIZE + 1)..calls : ~rets[i]
    /\ events_dropped = calls - EVENT_RING_SIZE

\* C3 amended: with the drainer not draining, after N successful pushes every
\* further push returns false and leaves every slot unchanged, and
\* events_dropped equals the number of further pushes with a non-empty payload
\* (an empty payload is refused before a position is claimed and is not
\* counted).
C3_DropCounterCountsNonEmptyPushes ==
  /\ [](C3_Case =>
          /\ \A i \in (EVENT_RING_SIZE + 1)..calls : ~rets[i]
          /\ events_dropped = Len(claimed) - EVENT_RING_SIZE
          /\ events_queued = EVENT_RING_SIZE)
  /\ [][(starts = 0 /\ starts' = 0 /\ events_queued = EVENT_RING_SIZE)
          => slots' = slots]_vars

C3_Witness ==
  /\ C3_Case
  /\ calls = EVENT_RING_SIZE + 2
  /\ events_dropped = 1
  /\ Len(claimed) = EVENT_RING_SIZE + 1

\* the push of payload id has stored SLOT_READY
Published(id) ==
  \/ rets[id]
  \/ \E p \in Producers : ppc[p] = "count" /\ p_json[p].id = id

\* C4: for any interleaving of producers and the drainer no payload is handed
\* to send() twice, and every slot handed to send() was in state READY,
\* published by a push that had stored its data.
C4_AtMostOnceAndOnlyReady ==
  \A i \in 1..Len(sent) :
    /\ sent[i].st = SLOT_READY
    /\ sent[i].id \in 1..calls
    /\ Published(sent[i].id)
    /\ \A j \in 1..Len(sent) : j # i => sent[j].id # sent[i].id

C4_Witness ==
  /\ Len(sent) >= 2
  /\ \E p \in Producers : ppc[p] = "write"
  /\ \E p \in Producers : ppc[p] = "drop"

\* C5: write_pos >= read_pos in every reachable state, and the steps of a
\* dropped push add exactly one to events_dropped and leave read_pos alone.
C5_WritePosAheadAndDropCounts ==
  /\ [](write_pos >= read_pos)
  /\ [][\A p \in Producers :
          (ppc[p] = "drop" /\ ppc'[p] = "idle")
            => events_dropped' = events_dropped + 1 /\ read_pos' = read_pos]_vars
  /\ [][events_dropped' # events_dropped
          => \E p \in Producers : ppc[p] = "drop" /\ ppc'[p] = "idle"]_vars

C5_Witness ==
  /\ events_dropped > 0
  /\ read_pos > 0
  /\ write_pos > read_pos

(***************************************************************************)
(* Relay client: tbg_relay_client.c                                        *)
(*                                                                         *)
(* Time is kept relative to the clock: time(NULL) always reads Now, and a  *)
(* second passing (RelayTick) moves every stored time-stamp one second     *)
(* into the past.  A stamp that is Horizon or more seconds old stays at 0. *)
(* A thread takes its steps without delay: a second passes only while      *)
(* every thread is blocked in sleep() or recv().                           *)
(***************************************************************************)
Now == Horizon

\* what a step of the relay client leaves alone
RelayFrame == UNCHANGED <<ringVars, rateVars, refillVars, connVars, poolVars,
        linkVars, blockVars, sigVars, validateVars, lookupVars, parseVars,
        metricVars, vardiffVars, serverVars, regVars, shareVars, txVars>>

clientVars == <<client_fd, connected, independent_mode, last_heartbeat,
                failover_timeout>>
receiverVars == <<rpc, r_wake, r_fd>>
monitorVars == <<hpc, h_wake, h_elapsed>>
primaryVars == <<primary_up, conn_open, inbox>>

\* tbg_relay_client_init, lines 297-347: both threads are created
tbg_relay_client_init(timeout) ==
  /\ RelayFrame
  /\ rpc = "none"
  /\ client_fd' = -1
  /\ connected' = FALSE
  /\ independent_mode' = FALSE
  /\ last_heartbeat' = 0
  /\ failover_timeout' = IF timeout > 0 THEN timeout ELSE TBG_RELAY_HB_TIMEOUT
  /\ rpc' = "r_top"
  /\ hpc' = "h_sleep"
  /\ h_wake' = Now + TBG_RELAY_HB_INTERVAL
  /\ last_msg' = Now
  /\ UNCHANGED <<r_wake, r_fd, h_elapsed, primaryVars>>

(***************************************************************************)
(* receiver_thread, lines 172-254                                          *)
(***************************************************************************)
\* lines 179-189: test of client_state.fd; connect_to_primary() when negative
RcvTop ==
  /\ RelayFrame
  /\ rpc = "r_top"
  /\ IF client_fd < 0
     THEN IF primary_up
          THEN /\ client_fd' = CLIENT_SOCKET
               /\ conn_open' = TRUE
               /\ inbox' = <<>>
               /\ rpc' = "r_conn1"
               /\ UNCHANGED r_wake
          ELSE /\ client_fd' = -1
               /\ rpc' = "r_sleep"
               /\ r_wake' = Now + RECONNECT_SLEEP
               /\ UNCHANGED <<conn_open, inbox>>
     ELSE /\ rpc' = "r_enter"
          /\ UNCHANGED <<client_fd, conn_open, inbox, r_wake>>
  /\ UNCHANGED <<connected, independent_mode, last_heartbeat, failover_timeout,
                 r_fd, monitorVars, primary_up, last_msg>>

\* line 187: sleep(3) returns
RcvSleepDone ==
  /\ RelayFrame
  /\ rpc = "r_sleep"
  /\ Now >= r_wake
  /\ rpc' = "r_top"
  /\ r_wake' = 0
  /\ UNCHANGED <<clientVars, r_fd, monitorVars, primaryVars, last_msg>>

\* line 191: client_state.connected = true
RcvConn1 ==
  /\ RelayFrame
  /\ rpc = "r_conn1"
  /\ connected' = TRUE
  /\ rpc' = "r_conn2"
  /\ UNCHANGED <<client_fd, independent_mode, last_heartbeat, failover_timeout,
                 r_wake, r_fd, monitorVars, primaryVars, last_msg>>

\* line 192: client_state.last_heartbeat = time(NULL)
RcvConn2 ==
  /\ RelayFrame
  /\ rpc = "r_conn2"
  /\ last_heartbeat' = Now
  /\ rpc' = "r_clear"
  /\ UNCHANGED <<client_fd, connected, independent_mode, failover_timeout,
                 r_wake, r_fd, monitorVars, primaryVars, last_msg>>

\* lines 195-204: REGISTER is sent, independent_mode is cleared
RcvClear ==
  /\ RelayFrame
  /\ rpc = "r_clear"
  /\ independent_mode' = FALSE
  /\ rpc' = "r_enter"
  /\ UNCHANGED <<client_fd, connected, last_heartbeat, failover_timeout,
                 r_wake, r_fd, monitorVars, primaryVars, last_msg>>

\* lines 208-213: SO_RCVTIMEO of 2 s, recv_msg(client_state.fd, ...) is entered
RcvEnter ==
  /\ RelayFrame
  /\ rpc = "r_enter"
  /\ r_fd' = client_fd
  /\ r_wake' = Now + RECV_TIMEOUT
  /\ rpc' = "r_recv"
  /\ UNCHANGED <<clientVars, monitorVars, primaryVars, last_msg>>

\* Refreshing with a case for REGISTER
Refreshing_WithRegister == {TBG_MSG_HEARTBEAT, TBG_MSG_TEMPLATE,
                            TBG_MSG_CONFIG_SYNC, TBG_MSG_REGISTER}

\* message types whose case refreshes last_heartbeat, lines 228-243
Refreshing == {TBG_MSG_HEARTBEAT, TBG_MSG_TEMPLATE, TBG_MSG_CONFIG_SYNC}

\* lines 213, 227-250: recv_msg returns a message, the switch handles it
RcvMsg ==
  /\ RelayFrame
  /\ rpc = "r_recv"
  /\ r_fd >= 0
  /\ conn_open
  /\ inbox # <<>>
  /\ last_heartbeat' = IF Head(inbox) \in Refreshing THEN Now ELSE last_heartbeat
  /\ inbox' = Tail(inbox)
  /\ last_msg' = Now
  /\ rpc' = "r_top"
  /\ r_wake' = 0
  /\ r_fd' = 0
  /\ UNCHANGED <<client_fd, connected, independent_mode, failover_timeout,
                 monitorVars, primary_up, conn_open>>

\* lines 215-217: recv_msg fails with EAGAIN after the 2 s receive timeout
RcvTimeout ==
  /\ RelayFrame
  /\ rpc = "r_recv"
  /\ r_fd >= 0
  /\ conn_open
  /\ inbox = <<>>
  /\ Now >= r_wake
  /\ rpc' = "r_top"
  /\ r_wake' = 0
  /\ r_fd' = 0
  /\ UNCHANGED <<clientVars, monitorVars, primaryVars, last_msg>>

\* lines 215, 219-220: recv_msg fails with another error: the descriptor is
\* invalid, or the connection is gone
RcvError ==
  /\ RelayFrame
  /\ rpc = "r_recv"
  /\ r_fd < 0 \/ ~conn_open
  /\ rpc' = "r_lost"
  /\ r_wake' = 0
  /\ r_fd' = 0
  /\ UNCHANGED <<clientVars, monitorVars, primaryVars, last_msg>>

\* lines 221-222: close(client_state.fd); client_state.fd = -1
RcvLostClose ==
  /\ RelayFrame
  /\ rpc = "r_lost"
  /\ client_fd' = -1
  /\ conn_open' = IF client_fd >= 0 THEN FALSE ELSE conn_open
  /\ inbox' = IF client_fd >= 0 THEN <<>> ELSE inbox
  /\ rpc' = "r_lost2"
  /\ UNCHANGED <<connected, independent_mode, last_heartbeat, failover_timeout,
                 r_wake, r_fd, monitorVars, primary_up, last_msg>>

\* line 223: client_state.connected = false
RcvLostFlag ==
  /\ RelayFrame
  /\ rpc = "r_lost2"
  /\ connected' = FALSE
  /\ rpc' = "r_top"
  /\ UNCHANGED <<client_fd, independent_mode, last_heartbeat, failover_timeout,
                 r_wake, r_fd, monitorVars, primaryVars, last_msg>>

receiver_thread ==
  \/ RcvTop \/ RcvSleepDone \/ RcvConn1 \/ RcvConn2 \/ RcvClear \/ RcvEnter
  \/ RcvMsg \/ RcvTimeout \/ RcvError \/ RcvLostClose \/ RcvLostFlag

(***************************************************************************)
(* heartbeat_monitor, lines 257-295                                        *)
(***************************************************************************)
\* lines 262-270: sleep(TBG_RELAY_HB_INTERVAL) returns; a HEARTBEAT is sent
\* when connected
HbSend ==
  /\ RelayFrame
  /\ hpc = "h_sleep"
  /\ Now >= h_wake
  /\ hpc' = "h_check"
  /\ h_wake' = 0
  /\ UNCHANGED <<clientVars, receiverVars, h_elapsed, primaryVars, last_msg>>

\* HbCheck failing over as soon as the timeout is reached
HbCheck_AtTimeout ==
  /\ RelayFrame
  /\ hpc = "h_check"
  /\ LET elapsed == Now - last_heartbeat IN
       IF connected /\ elapsed >= failover_timeout /\ ~independent_mode
       THEN /\ hpc' = "h_set"
            /\ h_elapsed' = elapsed
            /\ UNCHANGED h_wake
       ELSE /\ hpc' = "h_sleep"
            /\ h_wake' = Now + TBG_RELAY_HB_INTERVAL
            /\ h_elapsed' = 0
  /\ UNCHANGED <<clientVars, receiverVars, primaryVars, last_msg>>

\* lines 273-278: the failover test, made only while connected
HbCheck ==
  /\ RelayFrame
  /\ hpc = "h_check"
  /\ LET elapsed == Now - last_heartbeat IN
       IF connected /\ elapsed > failover_timeout /\ ~independent_mode
       THEN /\ hpc' = "h_set"
            /\ h_elapsed' = elapsed
            /\ UNCHANGED h_wake
       ELSE /\ hpc' = "h_sleep"
            /\ h_wake' = Now + TBG_RELAY_HB_INTERVAL
            /\ h_elapsed' = 0
  /\ UNCHANGED <<clientVars, receiverVars, primaryVars, last_msg>>

\* line 282: client_state.independent_mode = true
HbSet ==
  /\ RelayFrame
  /\ hpc = "h_set"
  /\ independent_mode' = TRUE
  /\ hpc' = "h_close"
  /\ UNCHANGED <<client_fd, connected, last_heartbeat, failover_timeout,
                 receiverVars, h_wake, h_elapsed, primaryVars, last_msg>>

\* lines 285-289: the dead connection is closed; back to sleep
HbClose ==
  /\ RelayFrame
  /\ hpc = "h_close"
  /\ IF client_fd >= 0
     THEN /\ client_fd' = -1
          /\ connected' = FALSE
          /\ conn_open' = FALSE
          /\ inbox' = <<>>
     ELSE UNCHANGED <<client_fd, connected, conn_open, inbox>>
  /\ hpc' = "h_sleep"
  /\ h_wake' = Now + TBG_RELAY_HB_INTERVAL
  /\ UNCHANGED <<independent_mode, last_heartbeat, failover_timeout,
                 receiverVars, h_elapsed, primary_up, last_msg>>

heartbeat_monitor == HbSend \/ HbCheck \/ HbSet \/ HbClose

(***************************************************************************)
(* The primary, the network and the clock                                  *)
(***************************************************************************)
PrimaryComesUp ==
  /\ RelayFrame
  /\ rpc # "none"
  /\ ~primary_up
  /\ primary_up' = TRUE
  /\ UNCHANGED <<clientVars, receiverVars, monitorVars, conn_open, inbox, last_msg>>

PrimaryGoesDown ==
  /\ RelayFrame
  /\ primary_up
  /\ primary_up' = FALSE
  /\ UNCHANGED <<clientVars, receiverVars, monitorVars, conn_open, inbox, last_msg>>

\* the connection is reset: the client's next recv fails
PrimaryDrop ==
  /\ RelayFrame
  /\ conn_open
  /\ conn_open' = FALSE
  /\ inbox' = <<>>
  /\ UNCHANGED <<clientVars, receiverVars, monitorVars, primary_up, last_msg>>

\* the primary sends a message of type t on the open connection, once the
\* client has read the previous one
PrimarySend(t) ==
  /\ RelayFrame
  /\ conn_open
  /\ inbox = <<>>
  /\ inbox' = Append(inbox, t)
  /\ UNCHANGED <<clientVars, receiverVars, monitorVars, primary_up, conn_open,
                 last_msg>>

\* message types the primary sends (tbg_relay_server.c): the last one stands
\* for every type the client's switch does not know
PrimaryMsgs == {TBG_MSG_TEMPLATE, TBG_MSG_HEARTBEAT, TBG_MSG_CONFIG_SYNC,
                TBG_MSG_REGISTER}

primary == PrimaryComesUp \/ PrimaryGoesDown \/ PrimaryDrop
             \/ \E t \in PrimaryMsgs : PrimarySend(t)

ReceiverBlocked ==
  \/ rpc = "r_sleep" /\ r_wake > Now
  \/ rpc = "r_recv" /\ r_wake > Now /\ r_fd >= 0 /\ conn_open /\ inbox = <<>>

MonitorBlocked == hpc = "h_sleep" /\ h_wake > Now

Older(t) == IF t > 0 THEN t - 1 ELSE 0

\* one second passes
RelayTick ==
  /\ RelayFrame
  /\ ReceiverBlocked
  /\ MonitorBlocked
  /\ last_heartbeat' = Older(last_heartbeat)
  /\ last_msg' = Older(last_msg)
  /\ r_wake' = Older(r_wake)
  /\ h_wake' = Older(h_wake)
  /\ UNCHANGED <<client_fd, connected, independent_mode, failover_timeout, rpc,
                 r_fd, hpc, h_elapsed, primaryVars>>

NextRelay ==
  \/ \E timeout \in {0, ShortTimeout} : tbg_relay_client_init(timeout)
  \/ receiver_thread
  \/ heartbeat_monitor
  \/ primary
  \/ RelayTick

SpecRelay == Init /\ [][NextRelay]_vars

\* Every thread that can take a step eventually takes it, and time keeps
\* passing (no infinity of steps within one second); nothing else is assumed
\* of the primary.
FairSpecRelay ==
  /\ Init
  /\ [][NextRelay]_vars
  /\ WF_vars(\E timeout \in {0, ShortTimeout} : tbg_relay_client_init(timeout))
  /\ WF_vars(receiver_thread)
  /\ WF_vars(heartbeat_monitor)
  /\ []<><<RelayTick>>_vars

(***************************************************************************)
(* Claims about the relay client                                           *)
(***************************************************************************)
\* no message of the primary has reached the client for longer than
\* failover_timeout seconds
Silent == rpc # "none" /\ Now - last_msg > failover_timeout

\* C6: if no message from the primary reaches the client for longer than
\* failover_timeout seconds (connection lost and reconnects failing, or the
\* primary never reachable, included) the client eventually enters independent
\* mode: silence leads to independent mode, unless a message arrives first.
C6_SilenceLeadsToIndependent == Silent ~> (independent_mode \/ ~Silent)

\* the case of C7: the monitor makes its failover test while the receiver is
\* blocked in recv on a connection the primary keeps open
C7_Case == hpc = "h_check" /\ rpc = "r_recv" /\ r_fd >= 0 /\ conn_open

\* the monitor decides to switch to independent mode
Failover == hpc = "h_check" /\ hpc' = "h_set"

RateFrame == UNCHANGED <<ringVars, relayVars, refillVars, connVars, poolVars,
        linkVars, blockVars, sigVars, validateVars, lookupVars, parseVars,
        metricVars, vardiffVars, serverVars, regVars, shareVars, txVars>>

\* uint32_t is modelled UintBits wide (32 scaled to 16): a conversion to
\* uint32_t keeps the value modulo 2^UintBits. time_t and the product
\* elapsed * refill_per_min are 64-bit in the code and never wrap here.
U32(x) == x % (2 ^ UintBits)
UintMax == (2 ^ UintBits) - 1

\* bucket_init, lines 48-55
bucket_init(max_tokens, refill_per_min, t) ==
  [tokens |-> max_tokens, max_tokens |-> max_tokens,
   refill_per_min |-> refill_per_min, last_refill |-> t]

\* bucket_refill without the clamp to max_tokens
bucket_refill_Unclamped(b, t) ==
  LET elapsed == t - b.last_refill
      to_add == U32((elapsed * b.refill_per_min) \div 60)
  IN IF elapsed <= 0 THEN b
     ELSE IF to_add = 0 THEN b
     ELSE [b EXCEPT !.tokens = U32(b.tokens + to_add), !.last_refill = t]

\* bucket_refill, lines 57-78
bucket_refill(b, t) ==
  LET elapsed == t - b.last_refill
      to_add == U32((elapsed * b.refill_per_min) \div 60)
      new_tokens == U32(b.tokens + to_add)
  IN IF elapsed <= 0 THEN b
     ELSE IF to_add = 0 THEN b
     ELSE [b EXCEPT !.tokens = IF new_tokens > b.max_tokens THEN b.max_tokens
                                ELSE new_tokens,
                    !.last_refill = t]

\* bucket_consume that takes no token
bucket_consume_TakesNothing(b, t) ==
  LET r == bucket_refill(b, t)
  IN IF r.tokens = 0 THEN [ok |-> FALSE, b |-> r]
     ELSE [ok |-> TRUE, b |-> r]

\* bucket_consume, lines 80-97: the bucket after the call and the value returned
bucket_consume(b, t) ==
  LET r == bucket_refill(b, t)
  IN IF r.tokens = 0 THEN [ok |-> FALSE, b |-> r]
     ELSE [ok |-> TRUE, b |-> [r EXCEPT !.tokens = r.tokens - 1]]

\* find_ip_entry, lines 101-107
find_ip_entry(tbl, ip) == ip \in DOMAIN tbl

\* HASH_ADD_STR / assignment through the entry pointer
Put(tbl, ip, e) == [i \in DOMAIN tbl \cup {ip} |-> IF i = ip THEN e ELSE tbl[i]]

\* get_or_create_ip_entry, lines 109-136 (calloc succeeds): the table after it
get_or_create_ip_entry(tbl, ip, t) ==
  IF find_ip_entry(tbl, ip)
  THEN Put(tbl, ip, [tbl[ip] EXCEPT !.last_seen = t])
  ELSE Put(tbl, ip,
           [connect_bucket |->
              bucket_init(g_config.connections_per_ip_per_minute,
                          g_config.connections_per_ip_per_minute, t),
            active_connections |-> 0,
            last_seen |-> t,
            softban_until |-> 0])

\* the configuration tbg_rate_limit_init(NULL) installs, lines 182-189
DefaultConfig ==
  [connections_per_ip_per_minute |-> RATE_CONNECT_PER_MIN,
   max_connections_per_ip |-> RATE_CONNECT_MAX_CONCURRENT,
   max_subscribes_per_minute |-> RATE_SUBSCRIBE_PER_MIN,
   max_authorizes_per_minute |-> RATE_AUTHORIZE_PER_MIN,
   max_shares_per_minute |-> RATE_SUBMIT_PER_MIN,
   max_invalid_shares_per_minute |-> RATE_INVALID_PER_MIN,
   global_max_connections |-> RATE_GLOBAL_MAX_CONNS,
   softban_duration_seconds |-> RATE_SOFTBAN_DURATION]

\* the argument of tbg_rate_limit_init(NULL)
NullConfig == [null |-> TRUE]

\* a configuration with the per-connection limits at their defaults
Config(c, m, g, d) ==
  [DefaultConfig EXCEPT !.connections_per_ip_per_minute = c,
                        !.max_connections_per_ip = m,
                        !.global_max_connections = g,
                        !.softban_duration_seconds = d]

\* tbg_rate_limit_init, lines 176-206 (pthread_create succeeds)
tbg_rate_limit_init(config) ==
  /\ RateFrame
  /\ cpc = "none"
  /\ g_config' = IF config = NullConfig THEN DefaultConfig ELSE config
  /\ g_total_connections' = 0
  /\ cpc' = "capture"
  /\ UNCHANGED <<now, ip_table, c_cutoff, c_wake, tpc, t_ip, open, attempts,
                 admitted, ban_until, last_ok, advances>>

\* cleanup_thread_func, lines 146-149: now and cutoff are taken, then sleep(60)
CleanupCapture ==
  /\ RateFrame
  /\ cpc = "capture"
  /\ c_cutoff' = now - RATE_STALE_THRESHOLD
  /\ c_wake' = now + RATE_CLEANUP_INTERVAL
  /\ cpc' = "sleep"
  /\ UNCHANGED <<now, g_config, g_total_connections, ip_table, tpc, t_ip, open,
                 attempts, admitted, ban_until, last_ok, advances>>

\* CleanupScan that does not spare the entries with active connections
CleanupScan_IgnoresActive ==
  /\ RateFrame
  /\ cpc = "sleep"
  /\ now >= c_wake
  /\ ip_table' = [ip \in {i \in DOMAIN ip_table :
                            ~(ip_table[i].last_seen < c_cutoff)}
                    |-> ip_table[ip]]
  /\ cpc' = "capture"
  /\ UNCHANGED <<now, g_config, g_total_connections, c_cutoff, c_wake, tpc, t_ip,
                 open, attempts, admitted, ban_until, last_ok, advances>>

\* cleanup_thread_func, lines 154-168: the scan under the write lock
CleanupScan ==
  /\ RateFrame
  /\ cpc = "sleep"
  /\ now >= c_wake
  /\ ip_table' = [ip \in {i \in DOMAIN ip_table :
                            \/ ip_table[i].active_connections > 0
                            \/ ~(ip_table[i].last_seen < c_cutoff)}
                    |-> ip_table[ip]]
  /\ cpc' = "capture"
  /\ UNCHANGED <<now, g_config, g_total_connections, c_cutoff, c_wake, tpc, t_ip,
                 open, attempts, admitted, ban_until, last_ok, advances>>

cleanup_thread_func == CleanupCapture \/ CleanupScan

\* a connect call for ip returns ok: the history is updated
ConnectReturns(ip, ok) ==
  /\ attempts' = [attempts EXCEPT ![ip] =
                    IF @ <= g_config.connections_per_ip_per_minute THEN @ + 1 ELSE @]
  /\ admitted' = [admitted EXCEPT ![ip] = IF ok THEN @ + 1 ELSE @]
  /\ open' = [open EXCEPT ![ip] = IF ok THEN @ + 1 ELSE @]

\* tbg_rate_limit_connect, lines 235-240: the global limit is tested on a load
\* of g_total_connections made before the lock is taken
ConnectCheck(t, ip) ==
  /\ RateFrame
  /\ cpc # "none"
  /\ tpc[t] = "idle"
  /\ last_ok' = NoConnect
  /\ IF g_total_connections >= g_config.global_max_connections
     THEN /\ ConnectReturns(ip, FALSE)
          /\ UNCHANGED <<tpc, t_ip>>
     ELSE /\ tpc' = [tpc EXCEPT ![t] = "c_body"]
          /\ t_ip' = [t_ip EXCEPT ![t] = ip]
          /\ UNCHANGED <<attempts, admitted, open>>
  /\ UNCHANGED <<now, g_config, g_total_connections, ip_table, cpc, c_cutoff,
                 c_wake, ban_until, advances>>

\* tbg_rate_limit_connect, lines 242-282: the body under the write lock
ConnectBody(t) ==
  /\ RateFrame
  /\ tpc[t] = "c_body"
  /\ LET ip == t_ip[t]
         tbl == get_or_create_ip_entry(ip_table, ip, now)
         entry == tbl[ip]
         \* lines 258-259: an expired soft-ban is cleared
         cleared == IF entry.softban_until > 0 /\ now >= entry.softban_until
                    THEN [entry EXCEPT !.softban_until = 0] ELSE entry
         took == bucket_consume(cleared.connect_bucket, now)
     IN IF entry.softban_until > 0 /\ now < entry.softban_until
        THEN /\ ip_table' = tbl
             /\ ConnectReturns(ip, FALSE)
             /\ UNCHANGED <<g_total_connections, last_ok>>
        ELSE IF cleared.active_connections >= g_config.max_connections_per_ip
        THEN /\ ip_table' = Put(tbl, ip, cleared)
             /\ ConnectReturns(ip, FALSE)
             /\ UNCHANGED <<g_total_connections, last_ok>>
        ELSE IF ~took.ok
        THEN /\ ip_table' = Put(tbl, ip, [cleared EXCEPT !.connect_bucket = took.b])
             /\ ConnectReturns(ip, FALSE)
             /\ UNCHANGED <<g_total_connections, last_ok>>
        ELSE /\ ip_table' = Put(tbl, ip,
                               [cleared EXCEPT !.connect_bucket = took.b,
                                               !.active_connections = @ + 1])
             /\ g_total_connections' = g_total_connections + 1
             /\ ConnectReturns(ip, TRUE)
             /\ last_ok' = [ip |-> ip, active |-> cleared.active_connections,
                            total |-> g_total_connections]
  /\ tpc' = [tpc EXCEPT ![t] = "idle"]
  /\ t_ip' = [t_ip EXCEPT ![t] = ""]
  /\ UNCHANGED <<now, g_config, cpc, c_cutoff, c_wake, ban_until, advances>>

\* tbg_rate_limit_disconnect, line 292; called for a connection that was
\* admitted
DisconnectGlobal(t, ip) ==
  /\ RateFrame
  /\ tpc[t] = "idle"
  /\ open[ip] > 0
  /\ open' = [open EXCEPT ![ip] = @ - 1]
  /\ g_total_connections' = g_total_connections - 1
  /\ last_ok' = IF last_ok.ip = ip THEN last_ok ELSE NoConnect
  /\ tpc' = [tpc EXCEPT ![t] = "d_entry"]
  /\ t_ip' = [t_ip EXCEPT ![t] = ip]
  /\ UNCHANGED <<now, g_config, ip_table, cpc, c_cutoff, c_wake, attempts,
                 admitted, ban_until, advances>>

\* tbg_rate_limit_disconnect, lines 294-302: the entry under the read lock
DisconnectEntry(t) ==
  /\ RateFrame
  /\ tpc[t] = "d_entry"
  /\ LET ip == t_ip[t] IN
       ip_table' =
         IF find_ip_entry(ip_table, ip)
         THEN Put(ip_table, ip,
                  [ip_table[ip] EXCEPT !.active_connections =
                                          IF @ <= 0 THEN 0 ELSE @ - 1])
         ELSE ip_table
  /\ last_ok' = NoConnect
  /\ tpc' = [tpc EXCEPT ![t] = "idle"]
  /\ t_ip' = [t_ip EXCEPT ![t] = ""]
  /\ UNCHANGED <<now, g_config, g_total_connections, cpc, c_cutoff, c_wake, open,
                 attempts, admitted, ban_until, advances>>

\* tbg_rate_limit_softban, lines 323-339, called by an idle caller t
tbg_rate_limit_softban(t, ip) ==
  /\ RateFrame
  /\ cpc # "none"
  /\ tpc[t] = "idle"
  /\ LET tbl == get_or_create_ip_entry(ip_table, ip, now) IN
       ip_table' = Put(tbl, ip, [tbl[ip] EXCEPT !.softban_until =
                                   now + g_config.softban_duration_seconds])
  /\ ban_until' = [ban_until EXCEPT ![ip] = now + g_config.softban_duration_seconds]
  /\ last_ok' = NoConnect
  /\ UNCHANGED <<now, g_config, g_total_connections, cpc, c_cutoff, c_wake, tpc,
                 t_ip, open, attempts, admitted, advances>>

\* the steps by which the clock is advanced
TimeSteps == {1, RATE_CLEANUP_INTERVAL, RATE_STALE_THRESHOLD}

\* d seconds pass
Advance(d) ==
  /\ RateFrame
  /\ cpc # "none"
  /\ advances < MaxAdvances
  /\ advances' = advances + 1
  /\ now' = now + d
  /\ attempts' = [ip \in IPs |-> 0]
  /\ admitted' = [ip \in IPs |-> 0]
  /\ UNCHANGED <<g_config, g_total_connections, ip_table, cpc, c_cutoff, c_wake,
                 tpc, t_ip, open, ban_until, last_ok>>

\* concurrent callers, no time passing
RateConfigs ==
  {NullConfig} \cup {Config(MaxPerMin, 2, g, RATE_SOFTBAN_DURATION) : g \in 1..2}

NextRate ==
  \/ \E config \in RateConfigs : tbg_rate_limit_init(config)
  \/ \E t \in Callers, ip \in IPs : ConnectCheck(t, ip)
  \/ \E t \in Callers : ConnectBody(t)
  \/ \E t \in Callers, ip \in IPs : DisconnectGlobal(t, ip)
  \/ \E t \in Callers : DisconnectEntry(t)

SpecRate == Init /\ [][NextRate]_vars

\* one caller (a sequence of connect and disconnect calls), no time passing
RateSeqConfigs ==
  {Config(c, m, g, RATE_SOFTBAN_DURATION) :
     c \in 1..MaxPerMin,
     m \in {1, RATE_CONNECT_MAX_CONCURRENT},
     g \in {1, RATE_GLOBAL_MAX_CONNS}}

NextRateSeq ==
  \/ \E config \in RateSeqConfigs : tbg_rate_limit_init(config)
  \/ \E ip \in IPs : ConnectCheck(1, ip)
  \/ ConnectBody(1)
  \/ \E ip \in IPs : DisconnectGlobal(1, ip)
  \/ DisconnectEntry(1)

SpecRateSeq == Init /\ [][NextRateSeq]_vars

\* one caller and one IP, the cleanup thread and the clock; soft-bans of
\* either duration
BanIPs == {"10.0.0.1"}

RateBanConfigs ==
  {Config(MaxPerMin, RATE_CONNECT_MAX_CONCURRENT, RATE_GLOBAL_MAX_CONNS, d) :
     d \in {RATE_SOFTBAN_DURATION, 2 * RATE_SOFTBAN_DURATION}}

NextRateBan ==
  \/ \E config \in RateBanConfigs : tbg_rate_limit_init(config)
  \/ \E ip \in BanIPs : ConnectCheck(1, ip)
  \/ ConnectBody(1)
  \/ \E ip \in BanIPs : DisconnectGlobal(1, ip)
  \/ DisconnectEntry(1)
  \/ \E ip \in BanIPs : tbg_rate_limit_softban(1, ip)
  \/ cleanup_thread_func
  \/ \E d \in TimeSteps : Advance(d)

SpecRateBan == Init /\ [][NextRateBan]_vars

(***************************************************************************)
(* Claims about the rate limiter                                           *)
(***************************************************************************)

\* C8: g_total_connections never exceeds global_max_connections, for any
\* interleaving of concurrent connect and disconnect calls from any IPs.
C8_TotalNeverExceedsCap ==
  cpc # "none" => g_total_connections <= g_config.global_max_connections

\* C9: after tbg_rate_limit_softban(ip) at time t no connect(ip) is admitted
\* at a time before t + softban_duration_seconds, for every configured
\* duration, the cleanup thread running in between or not; the soft-ban
\* creates the entry if the IP was unknown.
C9_SoftbanRejectsUntilExpiry ==
  /\ [][\A ip \in IPs : now < ban_until[ip] => open'[ip] <= open[ip]]_vars
  /\ [][\A ip \in IPs :
          ban_until'[ip] # ban_until[ip]
            => /\ find_ip_entry(ip_table', ip)
               /\ ip_table'[ip].softban_until = ban_until'[ip]]_vars

\* no time has passed since the rate limiter was initialized: every IP was
\* fresh at its first call
NoTimeElapsed == advances = 0

\* a disconnect that follows an admitted connect restores both counters
DisconnectRestores ==
  [][\A t \in Callers :
       (tpc[t] = "d_entry" /\ tpc'[t] = "idle" /\ last_ok.ip = t_ip[t])
         => /\ find_ip_entry(ip_table', t_ip[t])
            /\ ip_table'[t_ip[t]].active_connections = last_ok.active
            /\ g_total_connections' = last_ok.total]_vars

\* C10 as stated: with no time elapsing at most c connects of an IP are
\* admitted and its (c+1)th connect is rejected, whatever was disconnected in
\* between; a disconnect after an admitted connect restores the counters.
C10_NextConnectAfterCIsRejected ==
  /\ [](NoTimeElapsed =>
          \A ip \in IPs : admitted[ip] <= g_config.connections_per_ip_per_minute)
  /\ [][\A ip \in IPs :
          (NoTimeElapsed /\ NoTimeElapsed'
             /\ attempts[ip] = g_config.connections_per_ip_per_minute
             /\ attempts'[ip] # attempts[ip])
            => admitted'[ip] = admitted[ip]]_vars
  /\ DisconnectRestores

\* C10 amended: with no time elapsing at most c connects of an IP are
\* admitted, and once c of them have been admitted every further connect is
\* rejected, whatever was disconnected in between (the (c+1)th connect itself
\* is admitted when an earlier one was refused for another reason); a
\* disconnect after an admitted connect restores the counters.
C10_AtMostCAdmitted ==
  /\ [](NoTimeElapsed =>
          \A ip \in IPs : admitted[ip] <= g_config.connections_per_ip_per_minute)
  /\ [][\A ip \in IPs :
          (NoTimeElapsed /\ NoTimeElapsed'
             /\ admitted[ip] = g_config.connections_per_ip_per_minute
             /\ cpc # "none")
            => admitted'[ip] = admitted[ip] /\ open'[ip] <= open[ip]]_vars
  /\ DisconnectRestores

\* c connects were admitted, one was disconnected, a further connect refused
C10_Witness ==
  \E ip \in IPs :
    /\ NoTimeElapsed
    /\ g_config.connections_per_ip_per_minute = MaxPerMin
    /\ admitted[ip] = MaxPerMin
    /\ attempts[ip] = MaxPerMin + 1
    /\ open[ip] < admitted[ip]
    /\ tpc[1] = "idle"
    /\ ip_table[ip].connect_bucket.tokens = 0

\* one caller and one IP, the cleanup thread and the clock; no soft-ban
ReapConfig ==
  Config(MaxPerMin, RATE_CONNECT_MAX_CONCURRENT, RATE_GLOBAL_MAX_CONNS,
         RATE_SOFTBAN_DURATION)

NextRateReap ==
  \/ tbg_rate_limit_init(ReapConfig)
  \/ \E ip \in BanIPs : ConnectCheck(1, ip)
  \/ ConnectBody(1)
  \/ \E ip \in BanIPs : DisconnectGlobal(1, ip)
  \/ DisconnectEntry(1)
  \/ cleanup_thread_func
  \/ \E d \in TimeSteps : Advance(d)

SpecRateReap == Init /\ [][NextRateReap]_vars

\* C11: the cleanup thread never removes an entry whose active_connections > 0,
\* however old its last_seen is; hence the entry of an admitted connection
\* still exists when its disconnect is processed.
C11_ActiveEntriesAreNeverReaped ==
  /\ [][\A ip \in DOMAIN ip_table :
          ip_table[ip].active_connections > 0 => find_ip_entry(ip_table', ip)]_vars
  /\ [](\A ip \in IPs : open[ip] > 0 => find_ip_entry(ip_table, ip))
  /\ [](\A t \in Callers : tpc[t] = "d_entry" => find_ip_entry(ip_table, t_ip[t]))

\* a scan has just passed over a stale entry with an active connection
C11_Witness ==
  \E ip \in DOMAIN ip_table :
    /\ cpc = "capture"
    /\ c_wake > 0
    /\ now >= c_wake
    /\ ip_table[ip].active_connections > 0
    /\ ip_table[ip].last_seen < c_cutoff

(***************************************************************************)
(* One refill of a token bucket: rate_limit.c, bucket_refill               *)
(***************************************************************************)
RefillFrame == UNCHANGED <<ringVars, relayVars, rateVars, connVars, poolVars,
        linkVars, blockVars, sigVars, validateVars, lookupVars, parseVars,
        metricVars, vardiffVars, serverVars, regVars, shareVars, txVars>>

\* the inputs of the refill: capacities, rates per minute, seconds elapsed
Capacities == {0, 1, 10, UintMax}
Rates == {0, 1, 10, 60, UintMax}
Elapsed == {0, 1, 5, 6, 60, 61, 300}
StartTimes == {1000, 1001}

\* a bucket set up by bucket_init at t0 and drained of every token within
\* that second (bucket_consume adds nothing while time(NULL) = last_refill)
DrainedBucket(max_tokens, refill_per_min, t0) ==
  /\ bucket = ZeroBucket
  /\ refill_at = 0
  /\ bucket' = [bucket_init(max_tokens, refill_per_min, t0) EXCEPT !.tokens = 0]
  /\ UNCHANGED <<bucket_was, refill_at>>
  /\ RefillFrame

\* bucket_refill(&bucket) called T seconds after last_refill
RefillAfter(T) ==
  /\ bucket # ZeroBucket
  /\ refill_at = 0
  /\ bucket_was' = bucket
  /\ refill_at' = bucket.last_refill + T
  /\ bucket' = bucket_refill(bucket, bucket.last_refill + T)
  /\ RefillFrame

NextRefill ==
  \/ \E m \in Capacities, r \in Rates, t0 \in StartTimes : DrainedBucket(m, r, t0)
  \/ \E T \in Elapsed : RefillAfter(T)

SpecRefill == Init /\ [][NextRefill]_vars

Min(a, b) == IF a < b THEN a ELSE b

\* tokens that T seconds at the bucket's rate are worth
Due(b, T) == (T * b.refill_per_min) \div 60

\* C12: a refill evaluated T seconds after last_refill on a bucket holding no
\* token leaves tokens = min(max_tokens, floor(T * refill_per_min / 60)), and
\* last_refill moves, to the time of the refill, only if a token was due
C12_RefillFromEmpty ==
  refill_at # 0 /\ bucket_was.tokens = 0 =>
    LET T == refill_at - bucket_was.last_refill
    IN /\ bucket.tokens = Min(bucket.max_tokens, Due(bucket_was, T))
       /\ bucket.last_refill # bucket_was.last_refill =>
            bucket.last_refill = refill_at /\ Due(bucket_was, T) >= 1

\* the same for the refills whose amount fits uint32_t
RefillFromEmptyWithinRange ==
  refill_at # 0 /\ bucket_was.tokens = 0
    /\ Due(bucket_was, refill_at - bucket_was.last_refill) <= UintMax =>
    LET T == refill_at - bucket_was.last_refill
    IN /\ bucket.tokens = Min(bucket.max_tokens, Due(bucket_was, T))
       /\ bucket.last_refill # bucket_was.last_refill =>
            bucket.last_refill = refill_at /\ Due(bucket_was, T) >= 1

(***************************************************************************)
(* Per-connection rate limiting: rate_limit.c, lines 343-385                *)
(***************************************************************************)
ConnFrame == UNCHANGED <<ringVars, relayVars, rateVars, refillVars, poolVars,
        linkVars, blockVars, sigVars, validateVars, lookupVars, parseVars,
        metricVars, vardiffVars, serverVars, regVars, shareVars, txVars>>

\* tbg_rate_limit_conn_init, lines 343-360
tbg_rate_limit_conn_init ==
  /\ cpc # "none"
  /\ conn_state' =
       [subscribe_bucket |-> bucket_init(U32(g_config.max_subscribes_per_minute),
                                          U32(g_config.max_subscribes_per_minute), now),
        authorize_bucket |-> bucket_init(U32(g_config.max_authorizes_per_minute),
                                          U32(g_config.max_authorizes_per_minute), now),
        submit_bucket |-> bucket_init(U32(g_config.max_shares_per_minute),
                                       U32(g_config.max_shares_per_minute), now),
        invalid_bucket |-> bucket_init(U32(g_config.max_invalid_shares_per_minute),
                                        U32(g_config.max_invalid_shares_per_minute), now)]
  /\ UNCHANGED <<conn_was, conn_ret, checks>>
  /\ UNCHANGED rateVars
  /\ ConnFrame

\* the bucket tbg_rate_limit_check_conn selects, lines 371-386
BucketOf(type) ==
  CASE type = RATE_SUBSCRIBE -> "subscribe_bucket"
    [] type = RATE_AUTHORIZE -> "authorize_bucket"
    [] type = RATE_SUBMIT -> "submit_bucket"
    [] type = RATE_INVALID_SHARE -> "invalid_bucket"
    [] OTHER -> ""

\* tbg_rate_limit_check_conn, lines 362-390, on an initialised state
tbg_rate_limit_check_conn(type) ==
  /\ conn_state # ZeroConnState
  /\ checks < MaxChecks
  /\ checks' = checks + 1
  /\ IF BucketOf(type) = ""
     THEN /\ conn_ret' = TRUE
          /\ conn_was' = [type |-> type, b |-> ZeroBucket]
          /\ UNCHANGED conn_state
     ELSE LET took == bucket_consume(conn_state[BucketOf(type)], now)
          IN /\ conn_ret' = took.ok
             /\ conn_was' = [type |-> type, b |-> conn_state[BucketOf(type)]]
             /\ conn_state' = [conn_state EXCEPT ![BucketOf(type)] = took.b]
  /\ UNCHANGED rateVars
  /\ ConnFrame

RateTypes == {RATE_CONNECT, RATE_SUBSCRIBE, RATE_AUTHORIZE, RATE_SUBMIT,
              RATE_INVALID_SHARE}

\* the default limits of a connection; small limits with one at zero and a
\* negative one
ConnConfigs ==
  {ReapConfig,
   [Config(MaxPerMin, RATE_CONNECT_MAX_CONCURRENT, RATE_GLOBAL_MAX_CONNS,
           RATE_SOFTBAN_DURATION)
      EXCEPT !.max_subscribes_per_minute = 1, !.max_authorizes_per_minute = 2,
             !.max_shares_per_minute = -1, !.max_invalid_shares_per_minute = 0]}

\* a second, and a minute, which fills every bucket
ConnTimeSteps == {1, 60}

\* The connects of one IP, or the checks of one connection from the time it
\* is set up, and the clock. The connect bucket and the connection's buckets
\* are separate objects that share the clock and the configuration only, so
\* a run that exercises one of them loses no state of either.
NextConn ==
  \/ \E config \in ConnConfigs : tbg_rate_limit_init(config)
  \/ conn_state = ZeroConnState /\ ip_table = <<>> /\ tpc[1] = "idle"
       /\ tbg_rate_limit_conn_init
  \/ \E type \in RateTypes : tbg_rate_limit_check_conn(type)
  \/ \E ip \in BanIPs : conn_state = ZeroConnState /\ ConnectCheck(1, ip)
  \/ ConnectBody(1)
  \/ \E d \in ConnTimeSteps : Advance(d)

SpecConn == Init /\ [][NextConn]_vars

\* every bucket of the run: the connection's four and each IP's connect bucket
Buckets ==
  {conn_state[f] : f \in DOMAIN conn_state}
    \cup {ip_table[ip].connect_bucket : ip \in DOMAIN ip_table}

\* C13: every token bucket holds between 0 and max_tokens tokens after any
\* sequence of bucket_init, refill and consume
C13_TokensWithinCapacity ==
  \A b \in Buckets : 0 <= b.tokens /\ b.tokens <= b.max_tokens

\* a check found its bucket empty and was refused; the next check, made after
\* more time than fills the bucket, refilled it to max_tokens and took a token
C13_Witness ==
  /\ BucketOf(conn_was.type) # ""
  /\ conn_ret
  /\ conn_was.b.tokens = 0
  /\ conn_was.b.max_tokens > 1
  /\ Due(conn_was.b, now - conn_was.b.last_refill) > conn_was.b.max_tokens
  /\ conn_state[BucketOf(conn_was.type)].tokens = conn_was.b.max_tokens - 1
  /\ conn_state[BucketOf(conn_was.type)].last_refill = now

(***************************************************************************)
(* Memory pool: memory_pool.c                                              *)
(* Items are addresses: the items of the slabs are 1, 2, ... in the order  *)
(* the slabs were carved, the blocks aligned_alloc returns outside a slab  *)
(* are HeapBase, HeapBase + 1, ... . aligned_alloc does not fail.          *)
(***************************************************************************)
PoolFrame == UNCHANGED <<ringVars, relayVars, rateVars, refillVars, connVars,
        linkVars, blockVars, sigVars, validateVars, lookupVars, parseVars,
        metricVars, vardiffVars, serverVars, regVars, shareVars, txVars>>

\* the items count..1 pushed one by one onto list (lines 66-71): the last
\* pushed is the head
PushAll(list, first, count) ==
  [i \in 1..count |-> first + count - i] \o list

\* pool_grow, lines 27-77: [ok, p]
pool_grow(p, count) ==
  LET c == IF p.total_allocated + count > p.max_items
           THEN p.max_items - p.total_allocated ELSE count
  IN IF c <= 0 THEN [ok |-> FALSE, p |-> p]
     ELSE [ok |-> TRUE,
           p |-> [p EXCEPT !.slab_count = @ + 1,
                           !.free_list = PushAll(@, p.total_allocated + 1, c),
                           !.total_allocated = @ + c,
                           !.total_free = @ + c]]

\* tbg_pool_init, lines 79-104
tbg_pool_init(initial_count, max_items) ==
  /\ pool = ZeroPool
  /\ LET p == [ZeroPool EXCEPT !.max_items = IF max_items > 0 THEN max_items
                                              ELSE POOL_MAX_ITEMS]
     IN pool' = IF initial_count > 0 THEN pool_grow(p, initial_count).p ELSE p
  /\ UNCHANGED <<heap_next, mpc, m_item, live, ret_live, allocs>>
  /\ PoolFrame

\* the growth of tbg_pool_alloc without its upper limit
grow_count_NoUpperLimit(p) ==
  LET g == IF p.total_allocated > 0 THEN p.total_allocated \div 2
           ELSE POOL_INITIAL_SLABS
  IN IF g < POOL_GROW_MIN THEN POOL_GROW_MIN ELSE g

\* tbg_pool_alloc, lines 122-127
grow_count(p) ==
  LET g == IF p.total_allocated > 0 THEN p.total_allocated \div 2
           ELSE POOL_INITIAL_SLABS
  IN IF g < POOL_GROW_MIN THEN POOL_GROW_MIN
     ELSE IF g > POOL_GROW_MAX THEN POOL_GROW_MAX ELSE g

\* pop the head of the free list, lines 117-119 and 130-132
Pop(p) == [p EXCEPT !.free_list = Tail(@), !.total_free = @ - 1]

\* tbg_pool_alloc whose fast path leaves the item on the free list
AllocLocked_KeepsHead(t) ==
  /\ pool.max_items > 0
  /\ mpc[t] = "idle"
  /\ allocs < MaxAllocs
  /\ allocs' = allocs + 1
  /\ IF pool.free_list # <<>>
     THEN /\ m_item' = [m_item EXCEPT ![t] = Head(pool.free_list)]
          /\ pool' = [pool EXCEPT !.total_free = @ - 1]
     ELSE LET g == pool_grow(pool, grow_count(pool))
          IN IF g.ok
             THEN /\ m_item' = [m_item EXCEPT ![t] = Head(g.p.free_list)]
                  /\ pool' = Pop(g.p)
             ELSE /\ m_item' = [m_item EXCEPT ![t] = NULL]
                  /\ pool' = g.p
  /\ mpc' = [mpc EXCEPT ![t] = "a_unlocked"]
  /\ UNCHANGED <<heap_next, live, ret_live>>
  /\ PoolFrame

\* tbg_pool_alloc, lines 106-136: the section under pool->lock
AllocLocked(t) ==
  /\ pool.max_items > 0
  /\ mpc[t] = "idle"
  /\ allocs < MaxAllocs
  /\ allocs' = allocs + 1
  /\ IF pool.free_list # <<>>
     THEN /\ m_item' = [m_item EXCEPT ![t] = Head(pool.free_list)]
          /\ pool' = Pop(pool)
     ELSE LET g == pool_grow(pool, grow_count(pool))
          IN IF g.ok
             THEN /\ m_item' = [m_item EXCEPT ![t] = Head(g.p.free_list)]
                  /\ pool' = Pop(g.p)
             ELSE /\ m_item' = [m_item EXCEPT ![t] = NULL]
                  /\ pool' = g.p
  /\ mpc' = [mpc EXCEPT ![t] = "a_unlocked"]
  /\ UNCHANGED <<heap_next, live, ret_live>>
  /\ PoolFrame

\* tbg_pool_alloc, lines 138-142: the direct allocation and the return
AllocReturn(t) ==
  /\ mpc[t] = "a_unlocked"
  /\ LET item == IF m_item[t] = NULL THEN heap_next ELSE m_item[t]
     IN /\ heap_next' = IF m_item[t] = NULL THEN heap_next + 1 ELSE heap_next
        /\ ret_live' = (ret_live \/ item \in live)
        /\ live' = live \cup {item}
  /\ mpc' = [mpc EXCEPT ![t] = "idle"]
  /\ m_item' = [m_item EXCEPT ![t] = NULL]
  /\ UNCHANGED <<pool, allocs>>
  /\ PoolFrame

tbg_pool_alloc(t) == AllocLocked(t) \/ AllocReturn(t)

\* tbg_pool_free(pool, item) is called with a live item, which its caller
\* gives up with the call
FreeCall(t, item) ==
  /\ mpc[t] = "idle"
  /\ item \in live
  /\ live' = live \ {item}
  /\ m_item' = [m_item EXCEPT ![t] = item]
  /\ mpc' = [mpc EXCEPT ![t] = "f_lock"]
  /\ UNCHANGED <<pool, heap_next, ret_live, allocs>>
  /\ PoolFrame

\* tbg_pool_free, lines 150-157: the section under pool->lock
FreeLocked(t) ==
  /\ mpc[t] = "f_lock"
  /\ pool' = [pool EXCEPT !.free_list = <<m_item[t]>> \o @,
                          !.total_free = @ + 1]
  /\ m_item' = [m_item EXCEPT ![t] = NULL]
  /\ mpc' = [mpc EXCEPT ![t] = "idle"]
  /\ UNCHANGED <<heap_next, live, ret_live, allocs>>
  /\ PoolFrame

tbg_pool_free(t) == (\E item \in live : FreeCall(t, item)) \/ FreeLocked(t)

\* tbg_pool_in_use, lines 195-198
tbg_pool_in_use == pool.total_allocated - pool.total_free

NextPool ==
  \/ \E initial_count \in 0..MaxPoolItems, max_items \in 0..MaxPoolItems :
       tbg_pool_init(initial_count, max_items)
  \/ \E t \in PoolThreads : tbg_pool_alloc(t)
  \/ \E t \in PoolThreads : tbg_pool_free(t)

SpecPool == Init /\ [][NextPool]_vars

\* C14: after tbg_pool_init and any sequence of tbg_pool_alloc and
\* tbg_pool_free of live items, 0 <= total_free <= total_allocated <=
\* max_items, so that tbg_pool_in_use is never negative
C14_CountersStayOrdered ==
  pool # ZeroPool =>
    /\ 0 <= pool.total_free
    /\ pool.total_free <= pool.total_allocated
    /\ pool.total_allocated <= pool.max_items
    /\ tbg_pool_in_use >= 0

\* C15: under any interleaving of concurrent tbg_pool_alloc and tbg_pool_free
\* calls that free each live item at most once, no item on the free list is
\* live and tbg_pool_alloc never returns a live item
C15_FreeListAndLiveItemsDisjoint ==
  /\ \A i \in 1..Len(pool.free_list) : pool.free_list[i] \notin live
  /\ ~ret_live

\* one thread has popped an item and not yet returned it while another is
\* about to push the item it frees; items are live and items are free
C15_Witness ==
  \E t1, t2 \in PoolThreads :
    /\ mpc[t1] = "a_unlocked" /\ m_item[t1] # NULL
    /\ mpc[t2] = "f_lock"
    /\ live # {}
    /\ pool.free_list # <<>>

(***************************************************************************)
(* Relay framing and the reader loops: tbg_relay_server.c (send_msg,       *)
(* recv_exact, recv_msg, peer_handler), tbg_relay_client.c (the same       *)
(* send_msg, recv_exact and recv_msg, receiver_thread)                     *)
(***************************************************************************)
LinkFrame == UNCHANGED <<ringVars, relayVars, rateVars, refillVars, connVars,
        poolVars, blockVars, sigVars, validateVars, lookupVars, parseVars,
        metricVars, vardiffVars, serverVars, regVars, shareVars, txVars>>

\* the four bytes of n in the order of a little-endian host: htonl left out
htonl_HostOrder(n) ==
  <<n % 256, (n \div 256) % 256, (n \div 65536) % 256, (n \div 16777216) % 256>>

\* htonl on the wire: the four bytes of n, most significant first
htonl(n) == <<(n \div 16777216) % 256, (n \div 65536) % 256, (n \div 256) % 256,
              n % 256>>

\* ntohl of four bytes read from the wire
ntohl(b) == b[1] * 16777216 + b[2] * 65536 + b[3] * 256 + b[4]

\* the header send_msg builds, lines 50-56
Header(magic, version, msg_type, len) ==
  magic \o <<version, msg_type, 0, 0>> \o htonl(len)

\* the bytes send_msg(fd, msg_type, payload, len) writes when every send
\* succeeds, lines 48-74
send_msg(msg_type, payload) ==
  Header(TBG_RELAY_MAGIC, TBG_RELAY_VERSION, msg_type, Len(payload)) \o payload

\* recv_msg on a connection that holds the bytes w, lines 92-127: "msg" with
\* the type, the payload and its length; "framing" for a header that is
\* refused; "short" when recv_exact runs out of bytes. used = bytes read.
recv_msg(w) ==
  LET hdr == SubSeq(w, 1, TBG_RELAY_HDR_LEN)
      len == ntohl(SubSeq(hdr, 9, 12))
      refused == [status |-> "framing", type |-> -1, payload |-> <<>>,
                  len |-> 0, used |-> TBG_RELAY_HDR_LEN]
  IN IF Len(w) < TBG_RELAY_HDR_LEN
     THEN [status |-> "short", type |-> -1, payload |-> <<>>, len |-> 0,
           used |-> Len(w)]
     ELSE IF SubSeq(hdr, 1, TBG_RELAY_MAGIC_LEN) # TBG_RELAY_MAGIC THEN refused
     ELSE IF hdr[5] # TBG_RELAY_VERSION THEN refused
     ELSE IF len > TBG_RELAY_MAX_MSG THEN refused
     ELSE IF Len(w) < TBG_RELAY_HDR_LEN + len
     THEN [status |-> "short", type |-> -1, payload |-> <<>>, len |-> 0,
           used |-> Len(w)]
     ELSE [status |-> "msg", type |-> hdr[6],
           payload |-> SubSeq(w, TBG_RELAY_HDR_LEN + 1, TBG_RELAY_HDR_LEN + len),
           len |-> len, used |-> TBG_RELAY_HDR_LEN + len]

Drop(w, n) == SubSeq(w, n + 1, Len(w))

\* the payloads written: text of every length, and bytes with a NUL
Text == <<123, 34, 97, 34, 58, 49, 125, 10>>
Binary == <<0, 255>>
Payloads == {SubSeq(Text, 1, n) : n \in 0..MaxPayload} \cup {Binary}
MsgTypes == {TBG_MSG_TEMPLATE, TBG_MSG_HEARTBEAT, TBG_MSG_BLOCK_FOUND,
             TBG_MSG_CONFIG_SYNC, TBG_MSG_REGISTER}
\* the frames written: every type with text of every length, and a TEMPLATE
\* with the binary payload
Written ==
  {[type |-> t, payload |-> SubSeq(Text, 1, n)] : t \in MsgTypes, n \in 0..MaxPayload}
    \cup {[type |-> TBG_MSG_TEMPLATE, payload |-> Binary]}

\* a connection is accepted (peer_handler starts) or made (receiver_thread,
\* whose thread has errno 0 or what an earlier call left)
LinkUp(role, cb) ==
  /\ link = "none"
  /\ link' = "open"
  /\ xpc' = "recv"
  /\ x_role' = role
  /\ x_cb' = cb
  /\ UNCHANGED <<wire, s_rest, x_errno, x_ret, x_indep, x_in, delivered, frames>>
  /\ LinkFrame

\* send_msg at the other end, lines 58-60: the header is written
SendHeader(msg_type, payload) ==
  /\ link = "open"
  /\ s_rest = <<>>
  /\ frames < MaxFrames
  /\ frames' = frames + 1
  /\ wire' = wire \o Header(TBG_RELAY_MAGIC, TBG_RELAY_VERSION, msg_type,
                            Len(payload))
  /\ s_rest' = payload
  /\ UNCHANGED <<link, xpc, x_role, x_errno, x_ret, x_indep, x_cb, x_in, delivered>>
  /\ LinkFrame

\* send_msg at the other end, lines 63-71: the payload is written
SendPayload ==
  /\ link = "open"
  /\ s_rest # <<>>
  /\ wire' = wire \o s_rest
  /\ s_rest' = <<>>
  /\ UNCHANGED <<link, xpc, x_role, x_errno, x_ret, x_indep, x_cb, x_in, delivered,
                 frames>>
  /\ LinkFrame

\* the headers a frame can carry instead of send_msg's: one magic byte
\* altered, another version, a length above TBG_RELAY_MAX_MSG
Altered(msg_type, payload) ==
  {Header(<<84, 66, 71, 83>>, TBG_RELAY_VERSION, msg_type, Len(payload)),
   Header(<<116, 66, 71, 82>>, TBG_RELAY_VERSION, msg_type, Len(payload)),
   Header(TBG_RELAY_MAGIC, TBG_RELAY_VERSION + 1, msg_type, Len(payload)),
   Header(TBG_RELAY_MAGIC, TBG_RELAY_VERSION, msg_type, TBG_RELAY_MAX_MSG + 1),
   Header(TBG_RELAY_MAGIC, TBG_RELAY_VERSION, msg_type, 16777216)}

\* the other end writes a frame whose header is altered
SendAltered(hdr, payload) ==
  /\ link = "open"
  /\ s_rest = <<>>
  /\ frames < MaxFrames
  /\ frames' = frames + 1
  /\ wire' = wire \o hdr \o payload
  /\ UNCHANGED <<link, s_rest, xpc, x_role, x_errno, x_ret, x_indep, x_cb, x_in,
                 delivered>>
  /\ LinkFrame

\* the other end closes the connection
PeerCloses ==
  /\ link = "open"
  /\ s_rest = <<>>
  /\ link' = "peer_closed"
  /\ UNCHANGED <<wire, s_rest, xpc, x_role, x_errno, x_ret, x_indep, x_cb, x_in,
                 delivered, frames>>
  /\ LinkFrame

\* recv_msg returns a message or refuses a header; errno is left as it was
RecvReturn ==
  /\ xpc = "recv"
  /\ recv_msg(wire).status # "short"
  /\ x_ret' = recv_msg(wire)
  /\ x_in' = wire
  /\ wire' = Drop(wire, recv_msg(wire).used)
  /\ xpc' = "handle"
  /\ UNCHANGED <<link, s_rest, x_role, x_errno, x_indep, x_cb, delivered, frames>>
  /\ LinkFrame

\* recv_exact: the 2 s receive timeout ends a recv() while bytes of the frame
\* are missing; what was read of it is dropped with the buffer
RecvTimeout ==
  /\ xpc = "recv"
  /\ link = "open"
  /\ recv_msg(wire).status = "short"
  /\ x_ret' = recv_msg(wire)
  /\ x_in' = wire
  /\ wire' = <<>>
  /\ x_errno' = EAGAIN
  /\ xpc' = "handle"
  /\ UNCHANGED <<link, s_rest, x_role, x_indep, x_cb, delivered, frames>>
  /\ LinkFrame

\* recv_exact: recv() returns 0 at the end of the stream (errno is left as
\* it was) or fails on a reset connection
RecvEnd(reset) ==
  /\ xpc = "recv"
  /\ link = "peer_closed"
  /\ recv_msg(wire).status = "short"
  /\ x_ret' = recv_msg(wire)
  /\ x_in' = wire
  /\ wire' = <<>>
  /\ x_errno' = IF reset THEN ECONNRESET ELSE x_errno
  /\ xpc' = "handle"
  /\ UNCHANGED <<link, s_rest, x_role, x_indep, x_cb, delivered, frames>>
  /\ LinkFrame

\* peer_handler, lines 147-151 and 185-187; receiver_thread, lines 215-225:
\* recv_msg returned -1
HandleError ==
  /\ xpc = "handle"
  /\ x_ret.type < 0
  /\ IF x_errno = EAGAIN
     THEN /\ xpc' = "recv"
          /\ UNCHANGED link
     ELSE /\ xpc' = "done"
          /\ link' = "closed"
  /\ UNCHANGED <<wire, s_rest, x_role, x_errno, x_ret, x_indep, x_cb, x_in,
                 delivered, frames>>
  /\ LinkFrame

\* the switch on the message type with a TEMPLATE case that does not look at
\* independent_mode
HandleMsg_IgnoresMode ==
  /\ xpc = "handle"
  /\ x_ret.type >= 0
  /\ delivered' =
       IF x_role = "client" /\ x_ret.type = TBG_MSG_TEMPLATE
          /\ x_ret.len > 0 /\ x_cb
       THEN Append(delivered, [payload |-> x_ret.payload, len |-> x_ret.len])
       ELSE delivered
  /\ xpc' = "recv"
  /\ UNCHANGED <<link, wire, s_rest, x_role, x_errno, x_ret, x_indep, x_cb, x_in,
                 frames>>
  /\ LinkFrame

\* peer_handler, lines 153-180; receiver_thread, lines 227-250: the switch
\* on the message type
HandleMsg ==
  /\ xpc = "handle"
  /\ x_ret.type >= 0
  /\ delivered' =
       IF x_role = "client" /\ x_ret.type = TBG_MSG_TEMPLATE
          /\ x_ret.len > 0 /\ x_cb /\ ~x_indep
       THEN Append(delivered, [payload |-> x_ret.payload, len |-> x_ret.len])
       ELSE delivered
  /\ xpc' = "recv"
  /\ UNCHANGED <<link, wire, s_rest, x_role, x_errno, x_ret, x_indep, x_cb, x_in,
                 frames>>
  /\ LinkFrame

\* heartbeat_monitor sets client_state.independent_mode, tbg_relay_client.c
\* line 282
SetIndependent ==
  /\ x_role = "client"
  /\ ~x_indep
  /\ x_indep' = TRUE
  /\ UNCHANGED <<link, wire, s_rest, xpc, x_role, x_errno, x_ret, x_cb, x_in,
                 delivered, frames>>
  /\ LinkFrame

reader == RecvReturn \/ RecvTimeout \/ (\E reset \in BOOLEAN : RecvEnd(reset))
            \/ HandleError \/ HandleMsg

\* a reader of either kind and what the other end writes
NextLink ==
  \/ \E role \in {"peer", "client"} : LinkUp(role, TRUE)
  \/ \E f \in Written : SendHeader(f.type, f.payload)
  \/ SendPayload
  \/ \E h \in Altered(TBG_MSG_HEARTBEAT, Binary) : SendAltered(h, Binary)
  \/ PeerCloses
  \/ reader

SpecLink == Init /\ [][NextLink]_vars

\* recv_msg refused the header it read: wrong magic, wrong version or a
\* length above TBG_RELAY_MAX_MSG
HeaderRefused == xpc = "handle" /\ x_ret.status = "framing"

\* C16: whenever a reader has received a header with a wrong magic, a wrong
\* version or a length above the limit, its next step closes the connection,
\* whatever happened before on the connection
C16_BadHeaderClosesConnection ==
  [][HeaderRefused /\ xpc' # xpc => link' = "closed"]_vars

\* the primary's reader of one relay and what the relay writes
NextFraming ==
  \/ LinkUp("peer", FALSE)
  \/ \E f \in Written : SendHeader(f.type, f.payload)
  \/ SendPayload
  \/ \E h \in Altered(TBG_MSG_HEARTBEAT, Binary) : SendAltered(h, Binary)
  \/ PeerCloses
  \/ reader

SpecFraming == Init /\ [][NextFraming]_vars

\* C17: when the bytes on the connection begin with what send_msg(t, p)
\* writes, for a type t in 1..5 and a payload of at most TBG_RELAY_MAX_MSG
\* bytes, recv_msg returns (t, p) and has read exactly 12 + |p| bytes; when
\* they begin with a header whose magic is altered or whose length is above
\* TBG_RELAY_MAX_MSG, recv_msg returns the framing error and has read exactly
\* the 12 bytes of the header
C17_FramingRoundTrip ==
  xpc = "handle" =>
    /\ IsPrefix(Drop(x_in, x_ret.used), wire)
    /\ \A t \in MsgTypes, p \in Payloads :
         Len(p) <= TBG_RELAY_MAX_MSG /\ IsPrefix(send_msg(t, p), x_in) =>
           /\ x_ret.status = "msg"
           /\ x_ret.type = t
           /\ x_ret.payload = p
           /\ x_ret.len = Len(p)
           /\ x_ret.used = TBG_RELAY_HDR_LEN + Len(p)
    /\ Len(x_in) >= TBG_RELAY_HDR_LEN
         /\ (\/ SubSeq(x_in, 1, TBG_RELAY_MAGIC_LEN) # TBG_RELAY_MAGIC
             \/ ntohl(SubSeq(x_in, 9, 12)) > TBG_RELAY_MAX_MSG) =>
           /\ x_ret.status = "framing"
           /\ x_ret.type = -1
           /\ x_ret.used = TBG_RELAY_HDR_LEN

\* recv_msg returned a frame with the largest payload while more bytes
\* followed it on the connection
C17_Witness ==
  /\ xpc = "handle"
  /\ x_ret.status = "msg"
  /\ x_ret.len = TBG_RELAY_MAX_MSG
  /\ x_in = send_msg(x_ret.type, x_ret.payload) \o wire
  /\ wire # <<>>

\* the frames the relay is sent: TEMPLATE with every payload, and every other
\* type with and without payload
Received ==
  {[type |-> TBG_MSG_TEMPLATE, payload |-> p] : p \in Payloads}
    \cup {[type |-> t, payload |-> p] :
            t \in MsgTypes \ {TBG_MSG_TEMPLATE}, p \in {<<>>, Binary}}

\* the relay's receiver, with or without a template callback, what the
\* primary writes, and the heartbeat monitor's switch to independent mode
NextTemplate ==
  \/ \E cb \in BOOLEAN : LinkUp("client", cb)
  \/ \E f \in Received : SendHeader(f.type, f.payload)
  \/ SendPayload
  \/ PeerCloses
  \/ reader
  \/ SetIndependent

SpecTemplate == Init /\ [][NextTemplate]_vars

\* the receiver processes the message recv_msg returned
Processing == xpc = "handle" /\ x_ret.type >= 0 /\ xpc' = "recv"

\* the call template_callback(payload, len) is made with p and its length
Delivers(p) == delivered' = Append(delivered, [payload |-> p, len |-> Len(p)])

\* C18 as stated: with a callback registered, a TEMPLATE frame is delivered
\* to it, with the payload bytes and the length that were sent, if and only
\* if the client is not in independent mode when the frame is processed;
\* frames of other types never invoke the callback
C18_TemplateDeliveredUnlessIndependent ==
  [][Processing /\ x_cb =>
       \A f \in Received :
         IsPrefix(send_msg(f.type, f.payload), x_in) =>
           IF f.type = TBG_MSG_TEMPLATE /\ ~x_indep
           THEN Delivers(f.payload)
           ELSE delivered' = delivered]_vars

\* C18: with a callback registered, a TEMPLATE frame that carries a payload
\* is delivered to it, with the payload bytes and the length that were sent,
\* if and only if the client is not in independent mode when the frame is
\* processed; a TEMPLATE frame without payload and frames of other types
\* never invoke the callback
C18_NonEmptyTemplateDeliveredUnlessIndependent ==
  [][Processing /\ x_cb =>
       \A f \in Received :
         IsPrefix(send_msg(f.type, f.payload), x_in) =>
           IF f.type = TBG_MSG_TEMPLATE /\ f.payload # <<>> /\ ~x_indep
           THEN Delivers(f.payload)
           ELSE delivered' = delivered]_vars

\* one TEMPLATE was delivered; a second one, with another payload, has been
\* processed in independent mode and was not
C18_Witness ==
  /\ x_cb /\ x_indep
  /\ xpc = "recv"
  /\ Len(delivered) = 1
  /\ x_ret.type = TBG_MSG_TEMPLATE
  /\ x_ret.len > 0
  /\ x_ret.payload # delivered[1].payload

(***************************************************************************)
(* tbg_relay_send_block: tbg_relay_client.c, lines 374-380, called from a  *)
(* thread of the pool while the receiver and the heartbeat monitor run     *)
(***************************************************************************)
BlockFrame == UNCHANGED <<ringVars, relayVars, rateVars, refillVars,
        connVars, poolVars, linkVars, sigVars, validateVars, lookupVars,
        parseVars, metricVars, vardiffVars, serverVars, regVars, shareVars,
        txVars>>

\* line 376: client_state.connected is read
BlockTestConnected ==
  /\ rpc # "none"
  /\ bpc = "idle"
  /\ b_calls < MaxBlocks
  /\ b_calls' = b_calls + 1
  /\ IF ~connected
     THEN /\ b_ret' = -1
          /\ b_wrote' = 0
          /\ UNCHANGED bpc
     ELSE /\ bpc' = "b_fdtest"
          /\ UNCHANGED <<b_ret, b_wrote>>
  /\ UNCHANGED b_fd
  /\ UNCHANGED relayVars
  /\ BlockFrame

\* line 376: client_state.fd is read and tested
BlockTestFd ==
  /\ bpc = "b_fdtest"
  /\ IF client_fd < 0
     THEN /\ b_ret' = -1
          /\ b_wrote' = 0
          /\ bpc' = "idle"
     ELSE /\ bpc' = "b_arg"
          /\ UNCHANGED <<b_ret, b_wrote>>
  /\ b_fd' = IF client_fd < 0 THEN 0 ELSE client_fd
  /\ UNCHANGED b_calls
  /\ UNCHANGED relayVars
  /\ BlockFrame

\* line 379: client_state.fd is the argument of send_msg. The field is read
\* without a lock while other threads write it: the build may read it again
\* or use the value it tested.
BlockArg ==
  /\ bpc = "b_arg"
  /\ b_fd' \in {client_fd, b_fd}
  /\ bpc' = "b_send"
  /\ UNCHANGED <<b_ret, b_wrote, b_calls>>
  /\ UNCHANGED relayVars
  /\ BlockFrame

\* line 379, send_msg(fd, TBG_MSG_BLOCK_FOUND, block_json, len): the frame is
\* written if fd is an open descriptor whose connection is alive. The
\* descriptor number is open exactly when client_state.fd holds it.
BlockSend ==
  /\ bpc = "b_send"
  /\ IF b_fd >= 0 /\ client_fd = b_fd /\ conn_open
     THEN /\ b_ret' = 0
          /\ b_wrote' = 1
     ELSE /\ b_ret' = -1
          /\ b_wrote' = 0
  /\ bpc' = "idle"
  /\ b_fd' = 0
  /\ UNCHANGED b_calls
  /\ UNCHANGED relayVars
  /\ BlockFrame

tbg_relay_send_block ==
  BlockTestConnected \/ BlockTestFd \/ BlockArg \/ BlockSend

\* the relay client with the default timeout, a primary that sends
\* heartbeats, and a caller of tbg_relay_send_block
NextBlock ==
  \/ tbg_relay_client_init(0)
  \/ receiver_thread
  \/ heartbeat_monitor
  \/ PrimaryComesUp
  \/ PrimaryGoesDown
  \/ PrimaryDrop
  \/ PrimarySend(TBG_MSG_HEARTBEAT)
  \/ RelayTick
  \/ tbg_relay_send_block

SpecBlock == Init /\ [][NextBlock]_vars

\* the client is connected: connected is set and fd is not negative
Connected == connected /\ client_fd >= 0

\* tbg_relay_send_block returns
BlockReturns ==
  \/ bpc # "idle" /\ bpc' = "idle"
  \/ b_calls' # b_calls /\ bpc' = "idle"

\* C19: a call of tbg_relay_send_block that returns while the client is not
\* connected has returned -1 and written nothing, and a call that returns
\* while the client is connected and its connection is alive has returned 0
\* and written exactly one BLOCK_FOUND frame, under any interleaving with
\* receiver_thread and heartbeat_monitor
C19_SendBlockOnlyWhenConnected ==
  [][BlockReturns =>
       /\ ~Connected => b_ret' = -1 /\ b_wrote' = 0
       /\ Connected /\ conn_open => b_ret' = 0 /\ b_wrote' = 1]_vars

(***************************************************************************)
(* Signature cache: tbg_coinbase_sig.c (built with HAVE_HIREDIS)           *)
(***************************************************************************)
SigFrame == UNCHANGED <<ringVars, relayVars, rateVars, refillVars, connVars,
        poolVars, linkVars, blockVars, validateVars, lookupVars, parseVars,
        metricVars, vardiffVars, serverVars, regVars, shareVars, txVars>>

TBG_MAX_USER_SIG_LEN == 20

\* TBG_SIG_ALLOWED_CHARS, as byte values: letters, digits and "_-.:!#/ "
TBG_SIG_ALLOWED_CHARS ==
  (65..90) \cup (97..122) \cup (48..57) \cup {95, 45, 46, 58, 33, 35, 47, 32}

\* tbg_validate_sig without the test of the length against
\* TBG_MAX_USER_SIG_LEN
tbg_validate_sig_NoLengthLimit(sig) ==
  /\ sig # NullPtr
  /\ Len(sig) >= 1
  /\ \A i \in 1..Len(sig) : sig[i] \in TBG_SIG_ALLOWED_CHARS

\* tbg_validate_sig, lines 41-58; sig is a null pointer or a sequence of bytes
tbg_validate_sig(sig) ==
  /\ sig # NullPtr
  /\ Len(sig) >= 1
  /\ Len(sig) <= TBG_MAX_USER_SIG_LEN
  /\ \A i \in 1..Len(sig) : sig[i] \in TBG_SIG_ALLOWED_CHARS

\* SCAN ... COUNT 100, scaled: address slots visited by one SCAN call
ScanCount == 1

Addrs == 1..NumAddrs
Dbs == {0, 1}

\* values stored under user_coinbase:<address>: "Hi", "Go", "@"
SigValues == {<<72, 105>>, <<71, 111>>, <<64>>}

\* redis://host[:port][/db], lines 102-120
URL(db) == [set |-> TRUE, db |-> db]

\* tbg_sig_cache_init, lines 210-223
tbg_sig_cache_init(redis_url) ==
  /\ sig_running = 0
  /\ gpc = "none"
  /\ sig_redis_url' = redis_url
  /\ sig_running' = 1
  /\ gpc' = "g_top"
  /\ UNCHANGED <<sig_cache, new_cache, ctx_err, ctx_db, cursor, keys, k_i,
                 store, g_before, g_failed, g_cycles, g_writes>>
  /\ SigFrame

\* a client of the Redis server sets or deletes user_coinbase:<address>
RedisSet(db, address, value) ==
  /\ g_writes < MaxWrites
  /\ g_writes' = g_writes + 1
  /\ store' = {r \in store : ~(r.db = db /\ r.address = address)}
                \cup {[db |-> db, address |-> address, value |-> value]}
  /\ UNCHANGED <<sig_cache, sig_running, sig_redis_url, gpc, new_cache,
                 ctx_err, ctx_db, cursor, keys, k_i, g_before, g_failed,
                 g_cycles>>
  /\ SigFrame

RedisDel(db, address) ==
  /\ g_writes < MaxWrites
  /\ \E r \in store : r.db = db /\ r.address = address
  /\ g_writes' = g_writes + 1
  /\ store' = {r \in store : ~(r.db = db /\ r.address = address)}
  /\ UNCHANGED <<sig_cache, sig_running, sig_redis_url, gpc, new_cache,
                 ctx_err, ctx_db, cursor, keys, k_i, g_before, g_failed,
                 g_cycles>>
  /\ SigFrame

\* lines 98-129: the cycle begins; without a URL it returns at once, else
\* redisConnect succeeds or fails (ctx NULL or ctx->err: goto out)
RefreshConnect ==
  /\ gpc = "g_top"
  /\ sig_running = 1
  /\ g_cycles < MaxCycles
  /\ g_cycles' = g_cycles + 1
  /\ g_before' = sig_cache
  /\ new_cache' = {}
  /\ ctx_db' = 0
  /\ cursor' = 0
  /\ keys' = <<>>
  /\ k_i' = 0
  /\ IF ~sig_redis_url.set
     THEN /\ gpc' = "g_sleep"
          /\ g_failed' = FALSE
          /\ ctx_err' = FALSE
     ELSE \E ok \in BOOLEAN :
            /\ gpc' = IF ok THEN "g_select" ELSE "g_sleep"
            /\ g_failed' = ~ok
            /\ ctx_err' = ~ok
  /\ UNCHANGED <<sig_cache, sig_running, sig_redis_url, store, g_writes>>
  /\ SigFrame

\* replies of redisCommand: NULL once the connection has failed
ReplyKinds == IF ctx_err THEN {"null"} ELSE {"ok", "error", "null"}

\* lines 131-136: SELECT db when db > 0; the reply is freed without a look
\* at it. An error reply leaves database 0 selected; no reply means the
\* connection has failed.
RefreshSelect ==
  /\ gpc = "g_select"
  /\ gpc' = "g_scan"
  /\ IF sig_redis_url.db > 0
     THEN \E reply \in ReplyKinds :
            /\ ctx_db' = IF reply = "ok" THEN sig_redis_url.db ELSE ctx_db
            /\ ctx_err' = (ctx_err \/ reply = "null")
            /\ g_failed' = (g_failed \/ reply # "ok")
     ELSE UNCHANGED <<ctx_db, ctx_err, g_failed>>
  /\ UNCHANGED <<sig_cache, sig_running, sig_redis_url, new_cache, cursor,
                 keys, k_i, store, g_before, g_cycles, g_writes>>
  /\ SigFrame

RECURSIVE Ascending(_, _)
\* the members of the set of numbers S from lo upwards, in order
Ascending(S, lo) ==
  IF \A a \in S : a < lo THEN <<>>
  ELSE IF lo \in S THEN <<lo>> \o Ascending(S, lo + 1)
  ELSE Ascending(S, lo + 1)

\* the reply of SCAN c: the next cursor (0 at the end of the keyspace) and
\* the keys held in the slots visited
ScanReply(db, c) ==
  [cursor |-> IF c + ScanCount >= NumAddrs THEN 0 ELSE c + ScanCount,
   keys |-> Ascending({r.address : r \in {q \in store :
                          q.db = db /\ q.address > c
                          /\ q.address <= c + ScanCount}}, 1)]

\* lines 142-149: one SCAN; a missing or malformed reply leaves the loop
RefreshScan ==
  /\ gpc = "g_scan"
  /\ \E reply \in ReplyKinds :
       IF reply = "ok"
       THEN /\ cursor' = ScanReply(ctx_db, cursor).cursor
            /\ keys' = ScanReply(ctx_db, cursor).keys
            /\ k_i' = 0
            /\ gpc' = "g_get"
            /\ UNCHANGED <<ctx_err, g_failed>>
       ELSE /\ gpc' = "g_swap"
            /\ ctx_err' = (ctx_err \/ reply = "null")
            /\ g_failed' = TRUE
            /\ UNCHANGED <<cursor, keys, k_i>>
  /\ UNCHANGED <<sig_cache, sig_running, sig_redis_url, new_cache, ctx_db,
                 store, g_before, g_cycles, g_writes>>
  /\ SigFrame

\* the entry of the selected database under the key, if any
Stored(db, address) == {r \in store : r.db = db /\ r.address = address}

\* lines 151-169: GET of one key of the reply; a string that passes
\* tbg_validate_sig is added to the new map, any other reply is skipped
RefreshGetInsert(address, value) ==
  IF tbg_validate_sig(value)
  THEN new_cache \cup {[address |-> address, sig |-> value]}
  ELSE new_cache

RefreshGet ==
  /\ gpc = "g_get"
  /\ k_i < Len(keys)
  /\ k_i' = k_i + 1
  /\ \E reply \in ReplyKinds :
       /\ ctx_err' = (ctx_err \/ reply = "null")
       /\ IF reply = "ok"
          THEN /\ new_cache' =
                    IF Stored(ctx_db, keys[k_i + 1]) = {} THEN new_cache
                    ELSE LET r == CHOOSE r \in Stored(ctx_db, keys[k_i + 1]) : TRUE
                         IN RefreshGetInsert(r.address, r.value)
               /\ UNCHANGED g_failed
          ELSE /\ g_failed' = TRUE
               /\ UNCHANGED new_cache
  /\ UNCHANGED <<sig_cache, sig_running, sig_redis_url, gpc, ctx_db, cursor,
                 keys, store, g_before, g_cycles, g_writes>>
  /\ SigFrame

\* lines 171-173: the reply is done; another SCAN unless the cursor is 0
RefreshNext ==
  /\ gpc = "g_get"
  /\ k_i = Len(keys)
  /\ gpc' = IF cursor # 0 THEN "g_scan" ELSE "g_swap"
  /\ UNCHANGED <<sig_cache, sig_running, sig_redis_url, new_cache, ctx_err,
                 ctx_db, cursor, keys, k_i, store, g_before, g_failed,
                 g_cycles, g_writes>>
  /\ SigFrame

\* lines 176-190: under the write lock the old map is cleared and the new
\* one installed; the connection is freed
RefreshSwap ==
  /\ gpc = "g_swap"
  /\ sig_cache' = new_cache
  /\ new_cache' = {}
  /\ gpc' = "g_sleep"
  /\ UNCHANGED <<sig_running, sig_redis_url, ctx_err, ctx_db, cursor, keys,
                 k_i, store, g_before, g_failed, g_cycles, g_writes>>
  /\ SigFrame

refresh_from_redis ==
  \/ RefreshConnect
  \/ RefreshSelect
  \/ RefreshScan
  \/ RefreshGet
  \/ RefreshNext
  \/ RefreshSwap

\* sig_refresh_thread, lines 197-205: SIG_REFRESH_INTERVAL seconds of sleep
\* between two cycles
RefreshSleep ==
  /\ gpc = "g_sleep"
  /\ g_cycles < MaxCycles
  /\ gpc' = "g_top"
  /\ UNCHANGED <<sig_cache, sig_running, sig_redis_url, new_cache, ctx_err,
                 ctx_db, cursor, keys, k_i, store, g_before, g_failed,
                 g_cycles, g_writes>>
  /\ SigFrame

NextSig ==
  \/ \E url \in {NoURL} \cup {URL(db) : db \in Dbs} : tbg_sig_cache_init(url)
  \/ \E db \in Dbs, a \in Addrs, v \in SigValues : RedisSet(db, a, v)
  \/ \E db \in Dbs, a \in Addrs : RedisDel(db, a)
  \/ refresh_from_redis
  \/ RefreshSleep

SpecSig == Init /\ [][NextSig]_vars

\* C20: when a refresh cycle in which a step failed (connect, SELECT, SCAN
\* or GET) is over, the in-memory map is the map from before the cycle
C20_FailedCyclePreservesMap ==
  gpc = "g_sleep" /\ g_failed => sig_cache = g_before

(***************************************************************************)
(* Shutdown of the flusher: event_ring.c, lines 145-162 and 182-192        *)
(***************************************************************************)
\* tbg_event_ring_stop_flusher has returned
FlusherStopped ==
  /\ starts > 0
  /\ flusher_running = 0
  /\ spc = "idle"
  /\ fpc = "none"

\* one producer thread whose pushes all return before the flusher is
\* stopped, and none is made afterwards
NextRingStop ==
  \/ /\ flusher_running = 1 \/ starts = 0
     /\ spc = "idle"
     /\ PushClaim(1, 5, MaxSeqCalls)
  \/ PushSteps(1)
  \/ tbg_event_ring_start_flusher
  \/ flusher_thread_func
  \/ /\ ppc[1] = "idle"
     /\ StopFlusherSignal
  \/ StopFlusherJoin

SpecRingStop == Init /\ [][NextRingStop]_vars

\* C26: once tbg_event_ring_stop_flusher has returned, no producer having
\* pushed while it ran, no slot is left in state READY
C26_NoReadySlotAfterStop ==
  FlusherStopped => \A i \in SlotIdx : slots[i].state # SLOT_READY

(***************************************************************************)
(* Idle sleep of the flusher: event_ring.c, lines 149-156                  *)
(***************************************************************************)
\* flush_batch has returned without a batch: it found no READY slot at
\* read_pos, so read_pos is still the value it loaded
EmptyScanDone == fpc = "idlecheck" /\ read_pos = f_read_pos

\* nothing has changed since the scan: no push is in progress and the slot
\* at read_pos is still not READY
StillNothingToSend ==
  /\ \A p \in Producers : ppc[p] = "idle"
  /\ slots[BitAnd(read_pos, EVENT_RING_MASK)].state # SLOT_READY

\* C27: whenever a scan has found no READY slot at read_pos, the flusher
\* sleeps before its next scan; stated for the scans after which there is
\* still nothing to send, which include the scans after a push was dropped
C27_EmptyScanThenSleep ==
  [][EmptyScanDone /\ StillNothingToSend /\ fpc' = "loop" => f_slept']_vars

(***************************************************************************)
(* Growth of the pool: memory_pool.c, lines 120-134 and 27-37              *)
(***************************************************************************)
\* total_allocated of the pools the growth is tried on
GrowSizes == {0, 1, 3, 4, 5, 8, 9, 10}

\* a pool of total_allocated items that are all in use, as total_allocated
\* calls of tbg_pool_alloc without a tbg_pool_free leave it
DrainedPool(total_allocated, max_items) ==
  /\ pool = ZeroPool
  /\ max_items > 0
  /\ max_items >= total_allocated
  /\ pool' = [ZeroPool EXCEPT !.total_allocated = total_allocated,
                              !.max_items = max_items,
                              !.slab_count = IF total_allocated > 0 THEN 1 ELSE 0]
  /\ live' = 1..total_allocated
  /\ UNCHANGED <<heap_next, mpc, m_item, ret_live, allocs>>
  /\ PoolFrame

NextPoolGrow ==
  \/ \E n \in GrowSizes, room \in {0, 1, POOL_GROW_MAX + 2} :
       DrainedPool(n, n + room)
  \/ \E t \in PoolThreads : tbg_pool_alloc(t)

SpecPoolGrow == Init /\ [][NextPoolGrow]_vars

Max(a, b) == IF a > b THEN a ELSE b

\* tbg_pool_alloc takes the lock and finds the free list empty
SlowPath == pool.free_list = <<>> /\ allocs' = allocs + 1

\* what is left of a growth by want items under the limit max_items
Capped(want, p) ==
  IF p.total_allocated + want > p.max_items
  THEN Max(p.max_items - p.total_allocated, 0) ELSE want

\* min(max(total_allocated / 2, 64), 4096)
GrowthFormula(total_allocated) ==
  Min(Max(total_allocated \div 2, POOL_GROW_MIN), POOL_GROW_MAX)

DisconnectUnmatched(t, ip) ==
  /\ RateFrame
  /\ cpc # "none"
  /\ tpc[t] = "idle"
  /\ open[ip] = 0
  /\ g_total_connections > -MaxUnmatched
  /\ g_total_connections' = g_total_connections - 1
  /\ last_ok' = NoConnect
  /\ tpc' = [tpc EXCEPT ![t] = "d_entry"]
  /\ t_ip' = [t_ip EXCEPT ![t] = ip]
  /\ UNCHANGED <<now, g_config, ip_table, cpc, c_cutoff, c_wake, open, attempts,
                 admitted, ban_until, advances>>

\* DisconnectSub without the guard against underflow
DisconnectSub_NoGuard(t) ==
  /\ RateFrame
  /\ tpc[t] = "d_entry"
  /\ LET ip == t_ip[t] IN
       ip_table' = IF find_ip_entry(ip_table, ip)
                   THEN Put(ip_table, ip,
                            [ip_table[ip] EXCEPT !.active_connections = @ - 1])
                   ELSE ip_table
  /\ last_ok' = NoConnect
  /\ tpc' = [tpc EXCEPT ![t] = "idle"]
  /\ t_ip' = [t_ip EXCEPT ![t] = ""]
  /\ UNCHANGED <<now, g_config, g_total_connections, cpc, c_cutoff, c_wake, open,
                 attempts, admitted, ban_until, advances>>

\* lines 294-297: under the read lock, which other disconnects share, the
\* entry is found and atomic_fetch_sub takes 1 from active_connections; the
\* call is over unless the value before was <= 0
DisconnectSub(t) ==
  /\ RateFrame
  /\ tpc[t] = "d_entry"
  /\ LET ip == t_ip[t]
         found == find_ip_entry(ip_table, ip)
         again == found /\ ip_table[ip].active_connections <= 0
     IN /\ ip_table' = IF found
                       THEN Put(ip_table, ip,
                                [ip_table[ip] EXCEPT !.active_connections = @ - 1])
                       ELSE ip_table
        /\ tpc' = [tpc EXCEPT ![t] = IF again THEN "d_store" ELSE "idle"]
        /\ t_ip' = [t_ip EXCEPT ![t] = IF again THEN ip ELSE ""]
  /\ last_ok' = NoConnect
  /\ UNCHANGED <<now, g_config, g_total_connections, cpc, c_cutoff, c_wake, open,
                 attempts, admitted, ban_until, advances>>

\* lines 299-301: atomic_store(&entry->active_connections, 0) and the unlock
DisconnectStore(t) ==
  /\ RateFrame
  /\ tpc[t] = "d_store"
  /\ ip_table' = Put(ip_table, t_ip[t],
                     [ip_table[t_ip[t]] EXCEPT !.active_connections = 0])
  /\ tpc' = [tpc EXCEPT ![t] = "idle"]
  /\ t_ip' = [t_ip EXCEPT ![t] = ""]
  /\ UNCHANGED <<now, g_config, g_total_connections, cpc, c_cutoff, c_wake, open,
                 attempts, admitted, ban_until, last_ok, advances>>

\* a thread is inside the section of tbg_rate_limit_disconnect that holds
\* ip_table_lock for reading
ReadLocked == \E t \in Callers : tpc[t] = "d_store"

ActiveConfigs ==
  {Config(MaxPerMin, m, g, RATE_SOFTBAN_DURATION) : m \in 1..2, g \in 1..2}

\* concurrent connects and disconnects, matched or not; the body of a
\* connect, under the write lock, waits for the readers
NextRateActive ==
  \/ \E config \in ActiveConfigs : tbg_rate_limit_init(config)
  \/ \E t \in Callers, ip \in BanIPs : ConnectCheck(t, ip)
  \/ \E t \in Callers : ~ReadLocked /\ ConnectBody(t)
  \/ \E t \in Callers, ip \in BanIPs : DisconnectGlobal(t, ip)
  \/ \E t \in Callers, ip \in BanIPs : DisconnectUnmatched(t, ip)
  \/ \E t \in Callers : DisconnectSub(t)
  \/ \E t \in Callers : DisconnectStore(t)
  \/ \E t \in Callers, ip \in BanIPs : ~ReadLocked /\ tbg_rate_limit_softban(t, ip)

SpecRateActive == Init /\ [][NextRateActive]_vars

\* active_connections of ip, 0 if the table has no entry for it
ActiveOf(tbl, ip) ==
  IF find_ip_entry(tbl, ip) THEN tbl[ip].active_connections ELSE 0

ValidateFrame == UNCHANGED <<ringVars, relayVars, rateVars, refillVars,
        connVars, poolVars, linkVars, blockVars, sigVars, lookupVars,
        parseVars, metricVars, vardiffVars, serverVars, regVars, shareVars,
        txVars>>

\* n times the byte b
Repeat(b, n) == [i \in 1..n |-> b]

\* "hello", "Go Bitcoin!", "miner_01", "pool-v2.0", "#HODL", "a/b:c", "x",
\* "hello\nworld", "tab\there", "\x01bad", "no@email", "no$money",
\* "no<html>", "no\xc3\xa9ac", "", and strings of 19 to 22 digits and of 20
\* and 21 letters
SigArguments ==
  {NullPtr, <<>>,
   <<104, 101, 108, 108, 111>>,
   <<71, 111, 32, 66, 105, 116, 99, 111, 105, 110, 33>>,
   <<109, 105, 110, 101, 114, 95, 48, 49>>,
   <<112, 111, 111, 108, 45, 118, 50, 46, 48>>,
   <<35, 72, 79, 68, 76>>,
   <<97, 47, 98, 58, 99>>,
   <<104, 101, 108, 108, 111, 10, 119, 111, 114, 108, 100>>,
   <<116, 97, 98, 9, 104, 101, 114, 101>>,
   <<1, 98, 97, 100>>,
   <<110, 111, 64, 101, 109, 97, 105, 108>>,
   <<110, 111, 36, 109, 111, 110, 101, 121>>,
   <<110, 111, 60, 104, 116, 109, 108, 62>>,
   <<110, 111, 195, 169, 97, 99>>}
  \cup {Repeat(49, n) : n \in 19..22}
  \cup {Repeat(122, n) : n \in 20..21}
  \cup {<<b>> : b \in 1..255}
  \cup {<<120, b>> : b \in {31, 32, 64, 91, 96, 123, 127, 128, 255}}

ValidateCall(sig) ==
  /\ v_call' = [sig |-> sig, ret |-> tbg_validate_sig(sig), made |-> TRUE]
  /\ ValidateFrame

\* calls of tbg_validate_sig, or else a signature cache refreshed from
\* database 1 of a Redis server
NextValidate ==
  \/ \E sig \in SigArguments :
       gpc = "none" /\ g_writes = 0 /\ ValidateCall(sig)
  \/ ~v_call.made /\ tbg_sig_cache_init(URL(1))
  \/ \E a \in Addrs, v \in SigValues : ~v_call.made /\ RedisSet(1, a, v)
  \/ \E a \in Addrs : ~v_call.made /\ RedisDel(1, a)
  \/ refresh_from_redis
  \/ RefreshSleep

SpecValidate == Init /\ [][NextValidate]_vars

\* the rule of the claim: a letter, a digit or one of the bytes of "_-.:!#/ "
SigByte(b) ==
  \/ b \in 65..90
  \/ b \in 97..122
  \/ b \in 48..57
  \/ b \in {95, 45, 46, 58, 33, 35, 47, 32}

SigRule(s) ==
  /\ s # NullPtr
  /\ Len(s) >= 1
  /\ Len(s) <= 20
  /\ \A i \in 1..Len(s) : SigByte(s[i])

\* C25: tbg_validate_sig(s) returns true if and only if s is not null, has 1
\* to 20 bytes and each is a letter, a digit or one of "_-.:!#/ "; the
\* signature cache, the one being built included, holds only such values
C25_ValidatorMatchesRule ==
  /\ v_call.made => (v_call.ret <=> SigRule(v_call.sig))
  /\ \A e \in sig_cache \cup new_cache : SigRule(e.sig)

\* a string of exactly 20 allowed bytes was accepted
C25_Witness ==
  /\ v_call.made
  /\ v_call.ret
  /\ Len(v_call.sig) = 20

(***************************************************************************)
(* tbg_get_user_sig against the swap of refresh_from_redis, one action per *)
(* lock operation and per change of the map: tbg_coinbase_sig.c, lines     *)
(* 60-75 and 176-181                                                       *)
(***************************************************************************)
LookupFrame == UNCHANGED <<ringVars, relayVars, rateVars, refillVars,
        connVars, poolVars, linkVars, blockVars, sigVars, validateVars,
        parseVars, metricVars, vardiffVars, serverVars, regVars, shareVars,
        txVars>>

\* HASH_FIND_STR(map, address, entry); result = entry->sig
HASH_FIND_STR(map, address) ==
  IF \E e \in map : e.address = address
  THEN [found |-> TRUE, sig |-> (CHOOSE e \in map : e.address = address).sig]
  ELSE NotFound

\* line 68: pthread_rwlock_rdlock returns when no writer holds the lock
LookupLock(address) ==
  /\ lk.pc = "idle"
  /\ ~sig_lock.writer
  /\ sig_lock' = [sig_lock EXCEPT !.readers = @ + 1]
  /\ lk' = [pc |-> "l_find", address |-> address, result |-> NotFound,
            freed |-> FALSE]
  /\ UNCHANGED <<g_built, sigVars>>
  /\ LookupFrame

\* lines 69-71
LookupFind ==
  /\ lk.pc = "l_find"
  /\ lk' = [lk EXCEPT !.pc = "l_unlock",
                      !.result = HASH_FIND_STR(sig_cache, lk.address)]
  /\ UNCHANGED <<sig_lock, g_built, sigVars>>
  /\ LookupFrame

\* lines 72-74: the lock is released and result is returned; the caller
\* does not look at what it points to
LookupUnlock ==
  /\ lk.pc = "l_unlock"
  /\ sig_lock' = [sig_lock EXCEPT !.readers = @ - 1]
  /\ lk' = [pc |-> "idle", address |-> 0, result |-> NotFound, freed |-> FALSE]
  /\ UNCHANGED <<g_built, sigVars>>
  /\ LookupFrame

\* lines 72-74 when an entry was found: the lock is released and result, a
\* pointer to the sig field of the entry, is returned to a caller that goes
\* on to read the string
LookupReturn ==
  /\ lk.pc = "l_unlock"
  /\ lk.result.found
  /\ sig_lock' = [sig_lock EXCEPT !.readers = @ - 1]
  /\ lk' = [lk EXCEPT !.pc = "l_use"]
  /\ UNCHANGED <<g_built, sigVars>>
  /\ LookupFrame

tbg_get_user_sig ==
  \/ \E address \in Addrs : LookupLock(address)
  \/ LookupFind
  \/ LookupUnlock

\* the caller reads the string the returned pointer points to and is done
\* with it. A read of an entry that was freed is
\* undefined; what it yields is not recorded, lk.freed tells that it happened
CallerUse ==
  /\ lk.pc = "l_use"
  /\ lk' = [pc |-> "idle", address |-> 0, result |-> NotFound, freed |-> FALSE]
  /\ UNCHANGED <<sig_lock, g_built, sigVars>>
  /\ LookupFrame

\* what a step of the swap leaves alone
SwapFrame == UNCHANGED <<ringVars, relayVars, rateVars, refillVars, connVars,
        poolVars, linkVars, blockVars, validateVars, parseVars, metricVars,
        vardiffVars, serverVars, regVars, shareVars, txVars>>

\* SwapLock that does not wait for the readers to leave
SwapLock_NoWait ==
  /\ gpc = "g_swap"
  /\ sig_lock' = [sig_lock EXCEPT !.writer = TRUE]
  /\ g_built' = new_cache
  /\ gpc' = "g_clear"
  /\ UNCHANGED <<lk, sig_cache, sig_running, sig_redis_url, new_cache, ctx_err,
                 ctx_db, cursor, keys, k_i, store, g_before, g_failed,
                 g_cycles, g_writes>>
  /\ SwapFrame

\* line 177: pthread_rwlock_wrlock returns when nobody holds the lock
SwapLock ==
  /\ gpc = "g_swap"
  /\ ~sig_lock.writer
  /\ sig_lock.readers = 0
  /\ sig_lock' = [sig_lock EXCEPT !.writer = TRUE]
  /\ g_built' = new_cache
  /\ gpc' = "g_clear"
  /\ UNCHANGED <<lk, sig_cache, sig_running, sig_redis_url, new_cache, ctx_err,
                 ctx_db, cursor, keys, k_i, store, g_before, g_failed,
                 g_cycles, g_writes>>
  /\ SwapFrame

\* line 178, clear_cache: one HASH_DEL and free per step, until the old map
\* is empty
SwapClear ==
  /\ gpc = "g_clear"
  /\ IF sig_cache = {}
     THEN /\ gpc' = "g_assign"
          /\ UNCHANGED <<sig_cache, lk>>
     ELSE /\ \E entry \in sig_cache :
               /\ sig_cache' = sig_cache \ {entry}
               \* free(entry): a pointer into it that a caller holds dangles
               /\ lk' = IF /\ lk.pc = "l_use"
                           /\ lk.result.found
                           /\ lk.address = entry.address
                        THEN [lk EXCEPT !.freed = TRUE]
                        ELSE lk
          /\ UNCHANGED gpc
  /\ UNCHANGED <<sig_lock, g_built, sig_running, sig_redis_url, new_cache, ctx_err,
                 ctx_db, cursor, keys, k_i, store, g_before, g_failed,
                 g_cycles, g_writes>>
  /\ SwapFrame

\* line 179: sig_cache = new_cache
SwapAssign ==
  /\ gpc = "g_assign"
  /\ sig_cache' = new_cache
  /\ gpc' = "g_unlock"
  /\ UNCHANGED <<lookupVars, sig_running, sig_redis_url, new_cache, ctx_err,
                 ctx_db, cursor, keys, k_i, store, g_before, g_failed,
                 g_cycles, g_writes>>
  /\ SwapFrame

\* lines 180-190: the lock is released, new_cache = NULL, the connection is
\* freed
SwapUnlock ==
  /\ gpc = "g_unlock"
  /\ sig_lock' = [sig_lock EXCEPT !.writer = FALSE]
  /\ new_cache' = {}
  /\ gpc' = "g_sleep"
  /\ UNCHANGED <<lk, g_built, sig_cache, sig_running, sig_redis_url, ctx_err,
                 ctx_db, cursor, keys, k_i, store, g_before, g_failed,
                 g_cycles, g_writes>>
  /\ SwapFrame

\* a thread that looks signatures up while the refresh thread runs against
\* database 1 of a Redis server
NextLookup ==
  \/ tbg_sig_cache_init(URL(1))
  \/ \E a \in Addrs, v \in SigValues : RedisSet(1, a, v)
  \/ \E a \in Addrs : RedisDel(1, a)
  \/ RefreshConnect
  \/ RefreshSelect
  \/ RefreshScan
  \/ RefreshGet
  \/ RefreshNext
  \/ SwapLock
  \/ SwapClear
  \/ SwapAssign
  \/ SwapUnlock
  \/ RefreshSleep
  \/ tbg_get_user_sig

SpecLookup == Init /\ [][NextLookup]_vars

\* the step of tbg_get_user_sig that reads the map
LookupReads == lk.pc = "l_find" /\ lk'.pc = "l_unlock"

\* C21: a lookup reads the whole map from before the swap or the whole newly
\* built map, never a map cleared in part; a key with the same value in both
\* is found
C21_LookupSeesWholeMap ==
  [][LookupReads =>
       /\ sig_cache \in {g_before, g_built}
       /\ \A e \in g_before \cap g_built :
            e.address = lk.address => lk'.result = [found |-> TRUE, sig |-> e.sig]
    ]_vars

\* a lookup has found its key under the read lock while the refresh thread
\* waits to swap in a different map that holds the same key and value
C21_Witness ==
  /\ lk.pc = "l_unlock"
  /\ lk.result.found
  /\ gpc = "g_swap"
  /\ new_cache # sig_cache
  /\ \E e \in new_cache \cap sig_cache : e.address = lk.address

(***************************************************************************)
(* parse_stratum_request on a JSON object given as the sequence of its     *)
(* members: fuzz/fuzz_stratum_parser.c, lines 232-284 and 291-459          *)
(***************************************************************************)
ParseFrame == UNCHANGED <<ringVars, relayVars, rateVars, refillVars,
        connVars, poolVars, linkVars, blockVars, sigVars, validateVars,
        lookupVars, metricVars, vardiffVars, serverVars, regVars, shareVars,
        txVars>>

MAX_PARAMS == 8

\* identify_method, lines 232-247
identify_method(method) ==
  IF method = "mining.subscribe" THEN METHOD_SUBSCRIBE
  ELSE IF method = "mining.authorize" THEN METHOD_AUTHORIZE
  ELSE IF method = "mining.submit" THEN METHOD_SUBMIT
  ELSE IF method = "mining.configure" THEN METHOD_CONFIGURE
  ELSE IF method = "mining.suggest_difficulty" THEN METHOD_SUGGEST_DIFFICULTY
  ELSE IF method = "mining.extranonce.subscribe" THEN METHOD_EXTRANONCE_SUBSCRIBE
  ELSE METHOD_UNKNOWN

\* 1 for true, 0 for false
Truth(b) == IF b THEN 1 ELSE 0

\* the switch of validate_request, lines 260-283
ValidByMethod(r) ==
  IF r.method = METHOD_SUBSCRIBE
  THEN Truth(r.param_count >= 0 /\ r.param_count <= 2)
  ELSE IF r.method = METHOD_AUTHORIZE THEN Truth(r.param_count = 2)
  ELSE IF r.method = METHOD_SUBMIT
  THEN Truth(r.param_count >= 5 /\ r.param_count <= 6)
  ELSE IF r.method = METHOD_CONFIGURE THEN Truth(r.param_count >= 1)
  ELSE IF r.method = METHOD_SUGGEST_DIFFICULTY THEN Truth(r.param_count >= 1)
  ELSE 0

\* validate_request without the test of has_id
validate_request_NoIdTest(r) == [r EXCEPT !.valid = ValidByMethod(r)]

\* validate_request, lines 253-284
validate_request(r) ==
  IF r.has_id = 0
  THEN [r EXCEPT !.valid = 0]
  ELSE [r EXCEPT !.valid = ValidByMethod(r)]

\* the members an object is made of
MethodNames ==
  {"mining.subscribe", "mining.authorize", "mining.submit", "mining.configure",
   "mining.suggest_difficulty", "mining.extranonce.subscribe",
   "mining.notify", ""}

Members ==
  {[key |-> "id", kind |-> k] : k \in {"number", "string", "null", "true"}}
  \cup {[key |-> "method", name |-> n] : n \in MethodNames}
  \cup {[key |-> "params", count |-> c] : c \in 0..MaxSentParams}
  \cup {[key |-> "jsonrpc"]}

\* lines 291-310: memset, the opening brace
ParseBegin ==
  /\ req.pc \in {"idle", "done"}
  /\ req' = ZeroRequest
  /\ ParseFrame

\* lines 342-432: the value of one member, by its key. An id is a number, a
\* string or null, anything else ends the parse with -1; a method is a
\* string; of the elements of params the first MAX_PARAMS are captured and
\* counted, the others skipped; the value of any other key is skipped
ParseMember(m) ==
  /\ req.pc = "members"
  /\ req' =
       IF m.key = "id"
       THEN IF m.kind \in {"number", "string", "null"}
            THEN [req EXCEPT !.has_id = 1]
            ELSE [req EXCEPT !.ret = -1, !.pc = "done"]
       ELSE IF m.key = "method"
       THEN [req EXCEPT !.method_str = m.name,
                        !.method = identify_method(m.name),
                        !.found_method = 1]
       ELSE IF m.key = "params"
       THEN [req EXCEPT !.param_count =
                          IF m.count < MAX_PARAMS THEN m.count ELSE MAX_PARAMS]
       ELSE req
  /\ ParseFrame

\* lines 316-317 and 438-442: at the closing brace the request fails
\* without a method and is validated with one
ParseEnd ==
  /\ req.pc = "members"
  /\ req' = IF req.found_method = 0
            THEN [req EXCEPT !.ret = -1, !.pc = "done"]
            ELSE [validate_request(req) EXCEPT !.pc = "done"]
  /\ ParseFrame

\* parse_stratum_request on a well-formed object, member by member
parse_stratum_request ==
  \/ ParseBegin
  \/ \E m \in Members : ParseMember(m)
  \/ ParseEnd

NextParse == parse_stratum_request

SpecParse == Init /\ [][NextParse]_vars

\* parse_stratum_request has returned 0
Parsed == req.pc = "done" /\ req.ret = 0

\* the rule of the claim on the method name and the captured count
ParamRule(name, n) ==
  \/ name = "mining.subscribe" /\ n \in 0..2
  \/ name = "mining.authorize" /\ n = 2
  \/ name = "mining.submit" /\ n \in {5, 6}
  \/ name = "mining.configure" /\ n >= 1
  \/ name = "mining.suggest_difficulty" /\ n >= 1

RuleNames == {"mining.subscribe", "mining.authorize", "mining.submit",
              "mining.configure", "mining.suggest_difficulty"}

\* C24 as stated: a request that parses is valid if and only if its method
\* and captured parameter count satisfy the rule; any name outside the five
\* is tagged unknown and invalid
C24_ValidIffMethodRule ==
  Parsed =>
    /\ req.valid = 1 <=> ParamRule(req.method_str, req.param_count)
    /\ req.method_str \notin RuleNames =>
         req.method = METHOD_UNKNOWN /\ req.valid = 0

\* C24, amended: a request that parses is valid if and only if it has an id
\* member and its method and captured parameter count satisfy the rule;
\* mining.extranonce.subscribe has a tag of its own, any other name outside
\* the five is tagged unknown, and both are invalid
C24_ValidIffIdAndMethodRule ==
  Parsed =>
    /\ req.valid = 1 <=>
         req.has_id = 1 /\ ParamRule(req.method_str, req.param_count)
    /\ req.method_str \notin RuleNames =>
         /\ req.valid = 0
         /\ req.method = IF req.method_str = "mining.extranonce.subscribe"
                         THEN METHOD_EXTRANONCE_SUBSCRIBE
                         ELSE METHOD_UNKNOWN

\* a mining.configure with an id was found valid with MAX_PARAMS parameters
\* captured
C24_Witness ==
  /\ Parsed
  /\ req.has_id = 1
  /\ req.method = METHOD_CONFIGURE
  /\ req.param_count = MAX_PARAMS
  /\ req.valid = 1

(***************************************************************************)
(* The METRIC_ macros and tbg_format_metrics: tbg_metrics.h, lines 41-46,  *)
(* tbg_metrics.c, lines 32-98. Each macro is one atomic operation of C11,  *)
(* so the threads that execute them are not told apart.                    *)
(***************************************************************************)
MetricFrame == UNCHANGED <<ringVars, relayVars, rateVars, refillVars,
        connVars, poolVars, linkVars, blockVars, sigVars, validateVars,
        lookupVars, parseVars, vardiffVars, serverVars, regVars, shareVars,
        txVars>>

\* #define METRIC_INC(field) atomic_fetch_add(&g_metrics.field, 1)
METRIC_INC(field) ==
  /\ Len(m_log) < MaxMetricOps
  /\ g_metrics' = [g_metrics EXCEPT ![field] = @ + 1]
  /\ m_log' = Append(m_log, [op |-> "inc", field |-> field, val |-> 1])
  /\ UNCHANGED m_fmt
  /\ MetricFrame

\* METRIC_DEC that stops at zero
METRIC_DEC_StopsAtZero(field) ==
  /\ Len(m_log) < MaxMetricOps
  /\ g_metrics' = [g_metrics EXCEPT ![field] = IF @ > 0 THEN @ - 1 ELSE @]
  /\ m_log' = Append(m_log, [op |-> "dec", field |-> field, val |-> 1])
  /\ UNCHANGED m_fmt
  /\ MetricFrame

\* #define METRIC_DEC(field) atomic_fetch_sub(&g_metrics.field, 1)
METRIC_DEC(field) ==
  /\ Len(m_log) < MaxMetricOps
  /\ g_metrics' = [g_metrics EXCEPT ![field] = @ - 1]
  /\ m_log' = Append(m_log, [op |-> "dec", field |-> field, val |-> 1])
  /\ UNCHANGED m_fmt
  /\ MetricFrame

\* #define METRIC_SET(field, val) atomic_store(&g_metrics.field, (val))
METRIC_SET(field, val) ==
  /\ Len(m_log) < MaxMetricOps
  /\ g_metrics' = [g_metrics EXCEPT ![field] = val]
  /\ m_log' = Append(m_log, [op |-> "set", field |-> field, val |-> val])
  /\ UNCHANGED m_fmt
  /\ MetricFrame

\* #define METRIC_ADD(field, val) atomic_fetch_add(&g_metrics.field, (val))
METRIC_ADD(field, val) ==
  /\ Len(m_log) < MaxMetricOps
  /\ g_metrics' = [g_metrics EXCEPT ![field] = @ + val]
  /\ m_log' = Append(m_log, [op |-> "add", field |-> field, val |-> val])
  /\ UNCHANGED m_fmt
  /\ MetricFrame

RECURSIVE Decimal(_)
\* the decimal digits of n >= 0, as character codes: what %lu and %ld print
Decimal(n) ==
  IF n < 10 THEN <<48 + n>> ELSE Append(Decimal(n \div 10), 48 + (n % 10))

\* snprintf "%ld" of a signed value; "%lu" of a counter prints the same
\* digits as long as the counter is below 2^63
FormatLong(n) == IF n < 0 THEN <<45>> \o Decimal(0 - n) ELSE Decimal(n)

\* tbg_format_metrics, line 34: a call begins
FormatBegin ==
  /\ m_fmt.i = 0
  /\ m_fmt.calls < MaxFormats
  /\ m_fmt' = [i |-> 1, body |-> [f \in Counters \cup Gauges |-> NoText],
               calls |-> m_fmt.calls + 1]
  /\ UNCHANGED <<g_metrics, m_log>>
  /\ MetricFrame

\* lines 37-89: one snprintf, with its METRIC_GET (an atomic_load) of the
\* field; after the last one the call returns
FormatField ==
  /\ m_fmt.i >= 1
  /\ LET field == MetricFields[m_fmt.i] IN
       m_fmt' = [m_fmt EXCEPT
                   !.body[field] = FormatLong(g_metrics[field]),
                   !.i = IF m_fmt.i = Len(MetricFields) THEN 0 ELSE @ + 1]
  /\ UNCHANGED <<g_metrics, m_log>>
  /\ MetricFrame

tbg_format_metrics == FormatBegin \/ FormatField

\* values of test_metrics.c
AddValues == {100, 250}
SetValues == {850000, 850001}

NextMetrics ==
  \/ \E field \in {"shares_valid", "shares_invalid", "connected_miners"} :
       METRIC_INC(field)
  \/ METRIC_DEC("connected_miners")
  \/ \E val \in SetValues : METRIC_SET("bitcoin_height", val)
  \/ \E val \in AddValues : METRIC_ADD("total_diff_accepted", val)
  \/ tbg_format_metrics

SpecMetrics == Init /\ [][NextMetrics]_vars

RECURSIVE SumOfIncrements(_, _)
\* the sum of what the operations of the log add to the counter
SumOfIncrements(field, log) ==
  IF log = <<>> THEN 0
  ELSE SumOfIncrements(field, Tail(log))
       + (IF Head(log).field = field THEN Head(log).val ELSE 0)

RECURSIVE GaugeAfter(_, _, _)
\* the value of the gauge after the operations of the log, starting from v
GaugeAfter(field, log, v) ==
  IF log = <<>> THEN v
  ELSE LET o == Head(log) IN
         GaugeAfter(field, Tail(log),
                    IF o.field # field THEN v
                    ELSE IF o.op = "inc" THEN v + 1
                    ELSE IF o.op = "dec" THEN v - 1
                    ELSE o.val)

\* what the field must hold after the operations of the log
Expected(field) ==
  IF field \in Counters THEN SumOfIncrements(field, m_log)
  ELSE GaugeAfter(field, m_log, 0)

RECURSIVE NumberOf(_)
\* the number written by a sequence of digits with an optional minus sign
NumberOf(text) ==
  IF text = <<>> THEN 0
  ELSE IF Head(text) = 45 THEN 0 - NumberOf(Tail(text))
  ELSE 10 * NumberOf(SubSeq(text, 1, Len(text) - 1)) + (text[Len(text)] - 48)

\* tbg_format_metrics prints a field in this step
Prints(field) == m_fmt'.body[field] # NoText /\ m_fmt.body[field] = NoText

\* C23: whatever the order of the METRIC_ operations, a counter holds the
\* sum of its increments and a gauge the result of its own operations, a
\* gauge decremented at 0 holds -1, and tbg_format_metrics prints for each
\* field the number it holds
C23_MetricsExact ==
  /\ [](\A field \in Counters \cup Gauges : g_metrics[field] = Expected(field))
  /\ [][\A field \in Counters \cup Gauges :
          Prints(field) => NumberOf(m_fmt'.body[field]) = Expected(field)]_vars

\* the gauge was decremented at 0 and printed as -1 while the counters held
\* the sums of the scripted sequence
C23_Witness ==
  /\ g_metrics["connected_miners"] = -1
  /\ m_fmt.body["connected_miners"] = <<45, 49>>
  /\ g_metrics["total_diff_accepted"] = 350
  /\ m_fmt.body["total_diff_accepted"] = <<51, 53, 48>>

(***************************************************************************)
(* Reconnect difficulty memory: tbg_vardiff.c. A call that holds diff_lock *)
(* for its whole effect is one action.                                     *)
(***************************************************************************)
VardiffFrame == UNCHANGED <<ringVars, relayVars, rateVars, refillVars,
        connVars, poolVars, linkVars, blockVars, sigVars, validateVars,
        lookupVars, parseVars, metricVars, serverVars, regVars, shareVars,
        txVars>>

\* static int vd_ttl = 86400, scaled to ticks of the model clock
vd_ttl == 2

Workers == 1..NumWorkers
Diffs == {0, 1}

\* time passes
VardiffTick ==
  /\ vd_now < MaxNow
  /\ vd_now' = vd_now + 1
  /\ UNCHANGED <<diff_cache, vd_running, vpc, vd_store, vd_ret>>
  /\ VardiffFrame

\* HASH_FIND_STR(diff_cache, worker_name, entry)
DiffEntries(worker) == {e \in diff_cache : e.worker = worker}

\* tbg_get_reconnect_diff, lines 45-60
tbg_get_reconnect_diff(worker) ==
  /\ vd_ret' = [worker |-> worker,
                result |-> IF DiffEntries(worker) = {} THEN 0
                           ELSE (CHOOSE e \in DiffEntries(worker) : TRUE).diff]
  /\ UNCHANGED <<diff_cache, vd_running, vpc, vd_now, vd_store>>
  /\ VardiffFrame

\* the table after lines 69-83: the entry of the worker is updated or added
Saved(cache, worker, diff, t) ==
  {e \in cache : e.worker # worker}
    \cup {[worker |-> worker, diff |-> diff, last_seen |-> t]}

\* tbg_save_reconnect_diff, lines 62-84; calloc succeeds
tbg_save_reconnect_diff(worker, diff) ==
  /\ diff_cache' = IF diff <= 0 THEN diff_cache
                   ELSE Saved(diff_cache, worker, diff, vd_now)
  /\ UNCHANGED <<vd_running, vpc, vd_now, vd_store, vd_ret>>
  /\ VardiffFrame

\* tbg_vardiff_init, lines 250-263; pthread_create succeeds
tbg_vardiff_init ==
  /\ vd_running = 0
  /\ vpc = "none"
  /\ vd_running' = 1
  /\ vpc' = "v_load"
  /\ UNCHANGED <<diff_cache, vd_now, vd_store, vd_ret>>
  /\ VardiffFrame

RECURSIVE LoadAll(_, _, _)
\* lines 182-195: tbg_save_reconnect_diff for each key whose value is > 0
LoadAll(cache, pending, t) ==
  IF pending = {} THEN cache
  ELSE LET r == CHOOSE r \in pending : TRUE IN
         LoadAll(IF r.diff > 0 THEN Saved(cache, r.worker, r.diff, t)
                 ELSE cache,
                 pending \ {r}, t)

\* load_from_redis, lines 162-204: nothing is loaded when connect_redis
\* fails
load_from_redis ==
  /\ vpc = "v_load"
  /\ \E connects \in BOOLEAN :
       diff_cache' = IF connects THEN LoadAll(diff_cache, vd_store, vd_now)
                     ELSE diff_cache
  /\ vpc' = "v_loop"
  /\ UNCHANGED <<vd_running, vd_now, vd_store, vd_ret>>
  /\ VardiffFrame

\* the keys after SETEX of every entry seen within vd_ttl
Persisted ==
  LET fresh == {e \in diff_cache : vd_now - e.last_seen < vd_ttl} IN
    {r \in vd_store : \A e \in fresh : e.worker # r.worker}
      \cup {[worker |-> e.worker, diff |-> e.diff] : e \in fresh}

\* persist_to_redis, lines 138-160: nothing is written when connect_redis
\* fails; no entry is removed from diff_cache
persist_to_redis(next) ==
  /\ \E connects \in BOOLEAN :
       vd_store' = IF connects THEN Persisted ELSE vd_store
  /\ vpc' = next
  /\ UNCHANGED <<diff_cache, vd_running, vd_now, vd_ret>>
  /\ VardiffFrame

\* line 216: while (vd_running)
PersistLoop ==
  /\ vpc = "v_loop"
  /\ vpc' = IF vd_running = 1 THEN "v_persist" ELSE "v_final"
  /\ UNCHANGED <<diff_cache, vd_running, vd_now, vd_store, vd_ret>>
  /\ VardiffFrame

\* PersistSleep of a thread that loads from Redis again in every cycle
PersistSleep_Reloads ==
  /\ vpc = "v_sleep"
  /\ vpc' = "v_loop"
  /\ diff_cache' = LoadAll(diff_cache, vd_store, vd_now)
  /\ UNCHANGED <<vd_running, vd_now, vd_store, vd_ret>>
  /\ VardiffFrame

\* lines 220-223: PERSIST_INTERVAL sleeps of one second, cut short when
\* vd_running is cleared
PersistSleep ==
  /\ vpc = "v_sleep"
  /\ vpc' = "v_loop"
  /\ UNCHANGED <<diff_cache, vd_running, vd_now, vd_store, vd_ret>>
  /\ VardiffFrame

\* vardiff_persist_thread, lines 207-232
vardiff_persist_thread ==
  \/ load_from_redis
  \/ PersistLoop
  \/ vpc = "v_persist" /\ persist_to_redis("v_sleep")
  \/ PersistSleep
  \/ vpc = "v_final" /\ persist_to_redis("v_exited")

\* evict_stale, lines 235-248: every entry last seen more than vd_ttl ago
\* is deleted. The function is static and no function of tbg_vardiff.c
\* calls it, so it is no step of the program.
evict_stale ==
  /\ diff_cache' = {e \in diff_cache : ~(vd_now - e.last_seen > vd_ttl)}
  /\ UNCHANGED <<vd_running, vpc, vd_now, vd_store, vd_ret>>
  /\ VardiffFrame

\* tbg_vardiff_shutdown, lines 269-273: the flag is cleared, pthread_join
ShutdownSignal ==
  /\ vd_running = 1
  /\ vpc # "none"
  /\ vd_running' = 0
  /\ UNCHANGED <<diff_cache, vpc, vd_now, vd_store, vd_ret>>
  /\ VardiffFrame

\* lines 273-283: the thread has exited; every entry is deleted
ShutdownClear ==
  /\ vd_running = 0
  /\ vpc = "v_exited"
  /\ diff_cache' = {}
  /\ vpc' = "none"
  /\ UNCHANGED <<vd_running, vd_now, vd_store, vd_ret>>
  /\ VardiffFrame

tbg_vardiff_shutdown == ShutdownSignal \/ ShutdownClear

NextVardiff ==
  \/ tbg_vardiff_init
  \/ vardiff_persist_thread
  \/ \E worker \in Workers, diff \in Diffs : tbg_save_reconnect_diff(worker, diff)
  \/ \E worker \in Workers : tbg_get_reconnect_diff(worker)
  \/ VardiffTick
  \/ tbg_vardiff_shutdown

SpecVardiff == Init /\ [][NextVardiff]_vars

\* the persist thread keeps running
FairSpecVardiff == SpecVardiff /\ WF_vars(vardiff_persist_thread)

\* the worker has an entry last seen more than vd_ttl ago
StaleEntry(worker) ==
  \E e \in diff_cache : e.worker = worker /\ vd_now - e.last_seen > vd_ttl

\* C22: while the subsystem runs, an entry whose last_seen is older than the
\* TTL is eventually evicted from the map (or the subsystem is shut down, or
\* the worker is seen again)
C22_StaleEntryEvicted ==
  \A worker \in Workers :
    (vd_running = 1 /\ StaleEntry(worker)) ~>
      (vd_running = 0 \/ ~StaleEntry(worker))

(***************************************************************************)
(* The primary's peer table: tbg_relay_server.c, listener_thread,          *)
(* peer_handler, heartbeat_sender and tbg_relay_push_template. The clock   *)
(* advances by TBG_RELAY_HB_INTERVAL seconds at a time.                    *)
(***************************************************************************)
ServerFrame == UNCHANGED <<ringVars, relayVars, rateVars, refillVars,
        connVars, poolVars, linkVars, blockVars, sigVars, validateVars,
        lookupVars, parseVars, metricVars, vardiffVars, regVars, shareVars,
        txVars>>

\* time passes
ServerTick ==
  /\ s_net.now + TBG_RELAY_HB_INTERVAL <= MaxServerNow
  /\ s_net' = [s_net EXCEPT !.now = @ + TBG_RELAY_HB_INTERVAL]
  /\ UNCHANGED <<server_state, handlers, hb, tpl>>
  /\ ServerFrame

\* tbg_relay_server_init, lines 309-365: socket, bind, listen and both
\* pthread_create succeed
tbg_relay_server_init ==
  /\ ~server_state.running
  /\ hb.pc = "none"
  /\ server_state' = [running |-> TRUE, peers |-> [i \in Slots |-> ZeroPeer],
                      peer_count |-> 0, peers_lock |-> "free"]
  /\ hb' = [hb EXCEPT !.pc = "sleep", !.wake = s_net.now + TBG_RELAY_HB_INTERVAL]
  /\ UNCHANGED <<s_net, handlers, tpl>>
  /\ ServerFrame

\* lines 269-275: the first slot that is not active, -1 without one
FreeSlot ==
  IF \E i \in Slots : ~server_state.peers[i].active
  THEN CHOOSE i \in Slots :
         /\ ~server_state.peers[i].active
         /\ \A j \in Slots : j < i => server_state.peers[j].active
  ELSE -1

\* listener_thread, lines 257-303: a relay connects; under peers_lock the
\* slot is set up, then its peer_handler is started. Without a free slot
\* the connection is closed.
ListenerAccept ==
  /\ server_state.running
  /\ server_state.peers_lock = "free"
  /\ s_net.fds < MaxAccepts
  /\ LET new_fd == s_net.fds + 1
         slot == FreeSlot
     IN IF slot < 0
        THEN /\ s_net' = [s_net EXCEPT !.fds = new_fd]
             /\ UNCHANGED <<server_state, handlers>>
        ELSE /\ s_net' = [s_net EXCEPT !.fds = new_fd,
                                       !.conns = @ \cup {new_fd}]
             /\ server_state' =
                  [server_state EXCEPT
                     !.peers[slot] = [fd |-> new_fd,
                                      last_heartbeat |-> s_net.now,
                                      active |-> TRUE],
                     !.peer_count = IF slot >= @ THEN slot + 1 ELSE @]
             /\ handlers' = [handlers EXCEPT ![slot] = @ + 1]
  /\ UNCHANGED <<hb, tpl>>
  /\ ServerFrame

\* the relay behind the fd goes away
RelayGone(fd) ==
  /\ fd \in s_net.conns
  /\ s_net' = [s_net EXCEPT !.conns = @ \ {fd}]
  /\ UNCHANGED <<server_state, handlers, hb, tpl>>
  /\ ServerFrame

\* peer_handler, lines 140-181: one frame of the relay is received
HandlerRecv(i, msg_type) ==
  /\ handlers[i] > 0
  /\ server_state.peers[i].active
  /\ server_state.running
  /\ server_state.peers[i].fd \in s_net.conns
  /\ server_state' =
       IF msg_type \in {TBG_MSG_HEARTBEAT, TBG_MSG_REGISTER}
       THEN [server_state EXCEPT !.peers[i].last_heartbeat = s_net.now]
       ELSE server_state
  /\ UNCHANGED <<s_net, handlers, hb, tpl>>
  /\ ServerFrame

\* peer_handler, lines 140-150 and 183-189: the loop ends because the peer
\* is not active, the server not running or the connection lost; the fd is
\* closed and the slot released
HandlerExit(i) ==
  /\ handlers[i] > 0
  /\ \/ ~server_state.peers[i].active
     \/ ~server_state.running
     \/ server_state.peers[i].fd \notin s_net.conns
  /\ server_state' = [server_state EXCEPT !.peers[i].fd = -1,
                                          !.peers[i].active = FALSE]
  /\ s_net' = [s_net EXCEPT !.conns = @ \ {server_state.peers[i].fd}]
  /\ handlers' = [handlers EXCEPT ![i] = @ - 1]
  /\ UNCHANGED <<hb, tpl>>
  /\ ServerFrame

peer_handler(i) ==
  \/ \E msg_type \in {TBG_MSG_HEARTBEAT, TBG_MSG_REGISTER, TBG_MSG_BLOCK_FOUND} :
       HandlerRecv(i, msg_type)
  \/ HandlerExit(i)

\* send_msg, lines 48-74: to a connected relay it succeeds; to a relay that
\* is gone it may still succeed (the bytes are buffered) or fail; on a
\* closed fd it fails
SendResults(fd) ==
  IF fd \in s_net.conns THEN {TRUE}
  ELSE IF fd = -1 THEN {FALSE}
  ELSE BOOLEAN

\* heartbeat_sender, lines 199-205: the sleep is over; now = time(NULL)
HbWake ==
  /\ hb.pc = "sleep"
  /\ s_net.now >= hb.wake
  /\ hb' = IF server_state.running
           THEN [hb EXCEPT !.pc = "lock", !.now = s_net.now]
           ELSE [hb EXCEPT !.pc = "exited"]
  /\ UNCHANGED <<server_state, s_net, handlers, tpl>>
  /\ ServerFrame

\* line 207
HbLock ==
  /\ hb.pc = "lock"
  /\ server_state.peers_lock = "free"
  /\ server_state' = [server_state EXCEPT !.peers_lock = "heartbeat"]
  /\ hb' = [hb EXCEPT !.pc = "peers", !.i = 0]
  /\ UNCHANGED <<s_net, handlers, tpl>>
  /\ ServerFrame

\* HbPeer without the test of last_heartbeat
HbPeer_NoTimeout ==
  /\ hb.pc = "peers"
  /\ hb.i < server_state.peer_count
  /\ LET peer == server_state.peers[hb.i] IN
       IF ~peer.active
       THEN /\ hb' = [hb EXCEPT !.i = @ + 1, !.sent = FALSE]
            /\ UNCHANGED server_state
       ELSE \E ok \in SendResults(peer.fd) :
              /\ hb' = [hb EXCEPT !.i = @ + 1, !.sent = ok]
              /\ server_state' =
                   IF ~ok
                   THEN [server_state EXCEPT !.peers[hb.i].active = FALSE]
                   ELSE server_state
  /\ UNCHANGED <<s_net, handlers, tpl>>
  /\ ServerFrame

\* lines 208-226: one peer of the table
HbPeer ==
  /\ hb.pc = "peers"
  /\ hb.i < server_state.peer_count
  /\ LET peer == server_state.peers[hb.i] IN
       IF ~peer.active
       THEN /\ hb' = [hb EXCEPT !.i = @ + 1, !.sent = FALSE]
            /\ UNCHANGED server_state
       ELSE \E ok \in SendResults(peer.fd) :
              /\ hb' = [hb EXCEPT !.i = @ + 1, !.sent = ok]
              /\ server_state' =
                   IF ~ok \/ hb.now - peer.last_heartbeat > TBG_RELAY_HB_INTERVAL * 3
                   THEN [server_state EXCEPT !.peers[hb.i].active = FALSE]
                   ELSE server_state
  /\ UNCHANGED <<s_net, handlers, tpl>>
  /\ ServerFrame

\* lines 227 and 199-200: unlock, then sleep(TBG_RELAY_HB_INTERVAL)
HbUnlock ==
  /\ hb.pc = "peers"
  /\ hb.i >= server_state.peer_count
  /\ server_state' = [server_state EXCEPT !.peers_lock = "free"]
  /\ hb' = [hb EXCEPT !.pc = "sleep", !.i = 0, !.sent = FALSE,
                      !.wake = s_net.now + TBG_RELAY_HB_INTERVAL]
  /\ UNCHANGED <<s_net, handlers, tpl>>
  /\ ServerFrame

heartbeat_sender == HbWake \/ HbLock \/ HbPeer \/ HbUnlock

\* tbg_relay_push_template, lines 406-409, with a template of len > 0
PushLock ==
  /\ tpl.pc = "idle"
  /\ server_state.running
  /\ server_state.peers_lock = "free"
  /\ server_state' = [server_state EXCEPT !.peers_lock = "push"]
  /\ tpl' = [pc |-> "peers", i |-> 0, failed |-> FALSE]
  /\ UNCHANGED <<s_net, handlers, hb>>
  /\ ServerFrame

\* lines 410-420: one peer of the table; a failed send is logged
PushPeer ==
  /\ tpl.pc = "peers"
  /\ tpl.i < server_state.peer_count
  /\ LET peer == server_state.peers[tpl.i] IN
       IF ~peer.active
       THEN tpl' = [tpl EXCEPT !.i = @ + 1]
       ELSE \E ok \in SendResults(peer.fd) :
              tpl' = [tpl EXCEPT !.i = @ + 1, !.failed = (@ \/ ~ok)]
  /\ UNCHANGED <<server_state, s_net, handlers, hb>>
  /\ ServerFrame

\* line 421
PushUnlock ==
  /\ tpl.pc = "peers"
  /\ tpl.i >= server_state.peer_count
  /\ server_state' = [server_state EXCEPT !.peers_lock = "free"]
  /\ tpl' = [tpl EXCEPT !.pc = "idle", !.i = 0]
  /\ UNCHANGED <<s_net, handlers, hb>>
  /\ ServerFrame

tbg_relay_push_template == PushLock \/ PushPeer \/ PushUnlock

NextServer ==
  \/ tbg_relay_server_init
  \/ ServerTick
  \/ ListenerAccept
  \/ \E fd \in 1..MaxAccepts : RelayGone(fd)
  \/ \E i \in Slots : peer_handler(i)
  \/ heartbeat_sender
  \/ tbg_relay_push_template

SpecServer == Init /\ [][NextServer]_vars

\* heartbeat_sender handles peer i in this step
HbVisits(i) == hb.pc = "peers" /\ hb.i = i /\ hb'.i = i + 1

\* at the time of the heartbeat cycle, the last HEARTBEAT or REGISTER of
\* peer i is more than 3 intervals old
PeerSilent(i) ==
  hb.now - server_state.peers[i].last_heartbeat > 3 * TBG_RELAY_HB_INTERVAL

\* C30: a heartbeat cycle marks inactive every active peer it finds silent
\* for more than 3 * HB_INTERVAL and every active peer to which its send
\* fails; no step of tbg_relay_push_template changes an active flag
C30_HeartbeatOwnsLiveness ==
  /\ [][\A i \in Slots :
          HbVisits(i) /\ server_state.peers[i].active /\ (PeerSilent(i) \/ ~hb'.sent)
            => ~server_state'.peers[i].active]_vars
  /\ [][tpl' # tpl =>
          \A i \in Slots :
            server_state'.peers[i].active = server_state.peers[i].active]_vars

\* the heartbeat cycle has just marked inactive a silent peer that is still
\* connected and to which the heartbeat was sent, after a template push in
\* which the send to a peer failed
C30_Witness ==
  /\ hb.pc = "peers"
  /\ hb.i = 1
  /\ hb.sent
  /\ ~server_state.peers[0].active
  /\ server_state.peers[0].fd \in s_net.conns
  /\ hb.now - server_state.peers[0].last_heartbeat > 3 * TBG_RELAY_HB_INTERVAL
  /\ tpl.failed

(***************************************************************************)
(* Redis as other processes see it: a vardiff:<worker> key written by a     *)
(* previous run of the pool or by another client of the same server.        *)
(***************************************************************************)
\* values a key of Redis can hold
StoredDiffs == {1, 2}

\* SETEX vardiff:<worker> by a client other than this persist thread
RedisSetDiff(worker, diff) ==
  /\ vd_store' = {r \in vd_store : r.worker # worker}
                   \cup {[worker |-> worker, diff |-> diff]}
  /\ UNCHANGED <<diff_cache, vd_running, vpc, vd_now, vd_ret>>
  /\ VardiffFrame

\* the subsystem with callers and a second client of Redis; the clock, which
\* only decides what persist_to_redis skips, stands still
NextVardiffRedis ==
  \/ tbg_vardiff_init
  \/ vardiff_persist_thread
  \/ \E worker \in Workers, diff \in Diffs : tbg_save_reconnect_diff(worker, diff)
  \/ \E worker \in Workers : tbg_get_reconnect_diff(worker)
  \/ tbg_vardiff_shutdown
  \/ \E worker \in Workers, diff \in StoredDiffs : RedisSetDiff(worker, diff)

SpecVardiffRedis == Init /\ [][NextVardiffRedis]_vars

\* the persist thread keeps running
FairSpecVardiffRedis == SpecVardiffRedis /\ WF_vars(vardiff_persist_thread)

\* Redis holds a key of the worker
InStore(worker) == \E r \in vd_store : r.worker = worker

\* what tbg_get_reconnect_diff(worker) returns, lines 52-57
CachedDiff(worker) ==
  IF DiffEntries(worker) = {} THEN 0
  ELSE (CHOOSE e \in DiffEntries(worker) : TRUE).diff

\* C34 as stated: a vardiff:<worker> key that is in Redis while the persist
\* task runs eventually becomes visible through tbg_get_reconnect_diff (or
\* the subsystem is shut down)
C34_RedisKeyBecomesVisible ==
  \A worker \in Workers :
    (vd_running = 1 /\ vpc # "none" /\ InStore(worker)) ~>
      (vd_running = 0 \/ CachedDiff(worker) > 0)

\* C34 amended: the keyspace is scanned on startup only. A worker becomes
\* visible through tbg_get_reconnect_diff by a save of a caller or by the
\* load at the start of the persist thread, for a key that is in Redis then;
\* a persist cycle makes no worker visible
C34_VisibleBySaveOrStartupLoad ==
  [][\A worker \in Workers :
       (CachedDiff(worker) = 0 /\ CachedDiff(worker)' > 0) =>
         \/ \E diff \in Diffs :
              diff > 0 /\ tbg_save_reconnect_diff(worker, diff)
         \/ vpc = "v_load" /\ vpc' = "v_loop" /\ InStore(worker)]_vars

\* the startup load has brought in a key of Redis (a value no caller of this
\* run saves), and the thread sleeps after a persist cycle while another
\* key, which came to Redis after the load, is not in the map
C34_Witness ==
  /\ vd_running = 1
  /\ vpc = "v_sleep"
  /\ \E w1, w2 \in Workers :
       /\ CachedDiff(w2) = 2
       /\ InStore(w1)
       /\ CachedDiff(w1) = 0

\* C40: while the subsystem runs, the difficulty of a worker in the map
\* changes only by a save with d > 0 for that worker, and every stored
\* difficulty is > 0
C40_SavedDiffKept ==
  /\ [](\A e \in diff_cache : e.diff > 0)
  /\ [][\A worker \in Workers :
          (/\ vd_running = 1
           /\ CachedDiff(worker) > 0
           /\ ~(\E diff \in Diffs :
                  diff > 0 /\ tbg_save_reconnect_diff(worker, diff)))
            => CachedDiff(worker)' = CachedDiff(worker)]_vars

(***************************************************************************)
(* The region of a peer: the TBG_MSG_REGISTER branch of peer_handler,       *)
(* tbg_relay_server.c lines 158-165. A payload is the byte sequence that    *)
(* recv_msg read; recv_msg stores a NUL after it (line 122), and payload is *)
(* NULL when the length is 0.                                               *)
(***************************************************************************)
RegisterFrame == UNCHANGED <<ringVars, relayVars, rateVars, refillVars,
        connVars, poolVars, linkVars, blockVars, sigVars, validateVars,
        lookupVars, parseVars, metricVars, vardiffVars, serverVars,
        shareVars, txVars>>

\* sizeof(peer->region): char region[32]
REGION_SIZE == 32

\* the C string that starts at s: the bytes before the first NUL
CString(s) ==
  LET nuls == {i \in 1..Len(s) : s[i] = 0} IN
    IF nuls = {} THEN s
    ELSE SubSeq(s, 1, (CHOOSE i \in nuls : \A j \in nuls : i <= j) - 1)

\* the string in dest after strncpy(dest, src, n); dest[n] = '\0'
strncpy(src, n) ==
  LET str == CString(src) IN
    IF Len(str) <= n THEN str ELSE SubSeq(str, 1, n)

\* RegisterRegion without the length test: the payload is copied whatever
\* its length
RegisterRegion_NoLengthTest(region, payload) ==
  IF Len(payload) > 0 THEN strncpy(payload, REGION_SIZE - 1) ELSE region

\* lines 159-163: if (payload && len < sizeof(peer->region))
RegisterRegion(region, payload) ==
  IF Len(payload) > 0 /\ Len(payload) < REGION_SIZE
  THEN strncpy(payload, REGION_SIZE - 1)
  ELSE region

\* payloads of the run: a length, the place of a NUL byte (0: none) and
\* the first letter
PayloadLengths == {0, 1, 2, REGION_SIZE - 2, REGION_SIZE - 1, REGION_SIZE,
                   REGION_SIZE + 1}
NulPlaces == {0, 1, 2, REGION_SIZE - 1}
RegionPayload(len, nul, letter) ==
  [i \in 1..len |-> IF i = nul THEN 0 ELSE letter + (i % 2)]

\* peer_handler receives one REGISTER frame
HandleRegister(payload) ==
  /\ reg.handled < MaxRegisters
  /\ reg' = [region |-> RegisterRegion(reg.region, payload),
             was |-> reg.region,
             payload |-> payload,
             handled |-> reg.handled + 1]
  /\ RegisterFrame

NextRegister ==
  \E len \in PayloadLengths, nul \in NulPlaces, letter \in {97, 99} :
    HandleRegister(RegionPayload(len, nul, letter))

SpecRegister == Init /\ [][NextRegister]_vars

\* r is the string that p holds: p up to its first NUL
StringOf(r, p) ==
  /\ Len(r) <= Len(p)
  /\ \A i \in 1..Len(r) : r[i] = p[i] /\ r[i] # 0
  /\ Len(r) < Len(p) => p[Len(r) + 1] = 0

\* the first n bytes of p
FirstBytes(p, n) == IF Len(p) <= n THEN p ELSE SubSeq(p, 1, n)

\* C32 as stated: after a REGISTER frame with a non-empty payload of any
\* length, region is the string of the payload's first 31 bytes
C32_RegionIsTruncatedPayload ==
  (reg.handled > 0 /\ Len(reg.payload) > 0) =>
    StringOf(reg.region, FirstBytes(reg.payload, REGION_SIZE - 1))

\* C32 amended: after a REGISTER frame with a payload of 1 to 31 bytes,
\* region is the string of the payload; after one with a payload of 32
\* bytes or more (or none), region is what it was before
C32_RegionSetBelow32 ==
  reg.handled > 0 =>
    IF Len(reg.payload) \in 1..(REGION_SIZE - 1)
    THEN StringOf(reg.region, reg.payload)
    ELSE reg.region = reg.was

\* a payload of 32 bytes has left the region of an earlier frame in place
C32_Witness ==
  /\ reg.handled = 2
  /\ Len(reg.payload) = REGION_SIZE
  /\ reg.region = reg.was
  /\ Len(reg.region) = REGION_SIZE - 1

\* callers that read the signature they were handed
NextLookupUse ==
  \/ NextLookup
  \/ LookupReturn
  \/ CallerUse

SpecLookupUse == Init /\ [][NextLookupUse]_vars

\* C33: the signature a caller obtained from tbg_get_user_sig is never read
\* from a cache entry that a refresh has already freed
C33_NoReadOfFreedEntry ==
  [][(lk.pc = "l_use" /\ lk'.pc = "idle") => ~lk.freed]_vars

(***************************************************************************)
(* What the receipt of a message does to last_heartbeat: the switch of     *)
(* receiver_thread, tbg_relay_client.c lines 227-250                       *)
(***************************************************************************)
\* recv_msg returns a message of type t and the switch handles it
Receipt(t) ==
  /\ rpc = "r_recv"
  /\ rpc' = "r_top"
  /\ inbox # <<>>
  /\ Head(inbox) = t
  /\ inbox' = Tail(inbox)

\* C31 as stated: the receipt of a TEMPLATE, HEARTBEAT, CONFIG_SYNC or
\* REGISTER message sets last_heartbeat to the current time
C31_FourTypesRefresh ==
  [][\A t \in {TBG_MSG_TEMPLATE, TBG_MSG_HEARTBEAT, TBG_MSG_CONFIG_SYNC,
               TBG_MSG_REGISTER} :
       Receipt(t) => last_heartbeat' = Now]_vars

\* C31 amended: the receipt of a TEMPLATE, HEARTBEAT or CONFIG_SYNC message
\* sets last_heartbeat to the current time, in independent mode too; the
\* receipt of a REGISTER message leaves last_heartbeat as it was
C31_ThreeTypesRefresh ==
  [][/\ \A t \in {TBG_MSG_TEMPLATE, TBG_MSG_HEARTBEAT, TBG_MSG_CONFIG_SYNC} :
          Receipt(t) => last_heartbeat' = Now
     /\ Receipt(TBG_MSG_REGISTER) => last_heartbeat' = last_heartbeat]_vars

\* a message has just been handled on a connection whose last_heartbeat is
\* older: its type was none of the three
C31_Witness ==
  /\ rpc = "r_top"
  /\ connected
  /\ client_fd >= 0
  /\ last_msg = Now
  /\ last_heartbeat > 0
  /\ last_heartbeat < Now

(***************************************************************************)
(* bucket_consume called by several threads on one bucket: rate_limit.c    *)
(* lines 57-97, one action per access to the bucket. tokens is atomic,     *)
(* last_refill is a plain field.                                           *)
(***************************************************************************)
ShareFrame == UNCHANGED <<ringVars, relayVars, rateVars, refillVars,
        connVars, poolVars, linkVars, blockVars, sigVars, validateVars,
        lookupVars, parseVars, metricVars, vardiffVars, serverVars, regVars,
        txVars>>

Consumers == 1..NumConsumers

\* lines 59-68 of bucket_refill: time(NULL), the read of last_refill, to_add
ConsumeCall(t) ==
  /\ consumer[t].pc = "idle"
  /\ sb_calls < MaxConsumes
  /\ sb_calls' = sb_calls + 1
  /\ LET elapsed == sb_now - shared_bucket.last_refill
         to_add == (elapsed * shared_bucket.refill_per_min) \div 60 IN
       consumer' = [consumer EXCEPT ![t] =
                      IF elapsed <= 0 \/ to_add = 0
                      THEN [pc |-> "c_load", now |-> sb_now, to_add |-> 0,
                            current |-> 0]
                      ELSE [pc |-> "rf_load", now |-> sb_now,
                            to_add |-> to_add, current |-> 0]]
  /\ UNCHANGED <<shared_bucket, sb_now, sb_taken>>
  /\ ShareFrame

\* line 70: current = atomic_load(&b->tokens)
RefillLoad(t) ==
  /\ consumer[t].pc = "rf_load"
  /\ consumer' = [consumer EXCEPT ![t].pc = "rf_store",
                                  ![t].current = shared_bucket.tokens]
  /\ UNCHANGED <<shared_bucket, sb_now, sb_taken, sb_calls>>
  /\ ShareFrame

\* lines 71-75: new_tokens, clamped, atomic_store(&b->tokens, new_tokens)
RefillStore(t) ==
  /\ consumer[t].pc = "rf_store"
  /\ shared_bucket' =
       [shared_bucket EXCEPT
          !.tokens = Min(consumer[t].current + consumer[t].to_add,
                         shared_bucket.max_tokens)]
  /\ consumer' = [consumer EXCEPT ![t].pc = "rf_stamp"]
  /\ UNCHANGED <<sb_now, sb_taken, sb_calls>>
  /\ ShareFrame

\* line 76: b->last_refill = now
RefillStamp(t) ==
  /\ consumer[t].pc = "rf_stamp"
  /\ shared_bucket' = [shared_bucket EXCEPT !.last_refill = consumer[t].now]
  /\ consumer' = [consumer EXCEPT ![t].pc = "c_load"]
  /\ UNCHANGED <<sb_now, sb_taken, sb_calls>>
  /\ ShareFrame

\* lines 86-88: current = atomic_load(&b->tokens); false when it is 0
ConsumeLoad(t) ==
  /\ consumer[t].pc = "c_load"
  /\ consumer' = [consumer EXCEPT ![t] =
                    IF shared_bucket.tokens = 0 THEN IdleConsumer
                    ELSE [@ EXCEPT !.pc = "c_cas",
                                   !.current = shared_bucket.tokens]]
  /\ UNCHANGED <<shared_bucket, sb_now, sb_taken, sb_calls>>
  /\ ShareFrame

\* lines 91-96: one round of the loop. The exchange succeeds and the call
\* returns true, or it stores the value found in current and the loop goes on
\* while that is > 0. (A spurious failure of the weak exchange repeats the
\* round and is no step.)
ConsumeCas(t) ==
  /\ consumer[t].pc = "c_cas"
  /\ IF shared_bucket.tokens = consumer[t].current
     THEN /\ shared_bucket' = [shared_bucket EXCEPT !.tokens = @ - 1]
          /\ consumer' = [consumer EXCEPT ![t] = IdleConsumer]
          /\ sb_taken' = sb_taken + 1
     ELSE /\ consumer' = [consumer EXCEPT ![t] =
                            IF shared_bucket.tokens > 0
                            THEN [@ EXCEPT !.current = shared_bucket.tokens]
                            ELSE IdleConsumer]
          /\ UNCHANGED <<shared_bucket, sb_taken>>
  /\ UNCHANGED <<sb_now, sb_calls>>
  /\ ShareFrame

\* a second passes
ShareTick ==
  /\ sb_now < MaxBucketNow
  /\ sb_now' = sb_now + 1
  /\ UNCHANGED <<shared_bucket, consumer, sb_taken, sb_calls>>
  /\ ShareFrame

NextShare ==
  \/ \E t \in Consumers :
       \/ ConsumeCall(t)
       \/ RefillLoad(t)
       \/ RefillStore(t)
       \/ RefillStamp(t)
       \/ ConsumeLoad(t)
       \/ ConsumeCas(t)
  \/ ShareTick

SpecShare == Init /\ [][NextShare]_vars

\* C38: the number of successful consumes since bucket_init never exceeds
\* the tokens the bucket held then plus floor(T * refill_per_min / 60) for
\* the T seconds that have passed
C38_ConsumesWithinRefill ==
  sb_taken <= BucketCapacity + (sb_now * BucketPerMin) \div 60

(***************************************************************************)
(* The failover of heartbeat_monitor against a reconnect of                *)
(* receiver_thread: tbg_relay_client.c lines 272-291 and 179-225           *)
(***************************************************************************)
\* line 282: the monitor sets independent_mode
MonitorSets == hpc = "h_set" /\ hpc' = "h_close"

\* lines 285-289: the monitor closes the connection client_state.fd names
MonitorCloses == hpc = "h_close" /\ hpc' = "h_sleep" /\ client_fd >= 0

\* C39: the monitor sets independent_mode, and closes a connection, only
\* when now - last_heartbeat > failover_timeout holds at that step
C39_FailoverOnlyWhenStale ==
  [][(MonitorSets \/ MonitorCloses) =>
       Now - last_heartbeat > failover_timeout]_vars

(***************************************************************************)
(* send_msg of the relay client called by its threads on one connection:   *)
(* tbg_relay_client.c lines 47-71, one action per send(). The receiver     *)
(* sends REGISTER once after connecting (195-196), the monitor HEARTBEAT   *)
(* (269), a caller of tbg_relay_send_block BLOCK_FOUND (379).              *)
(***************************************************************************)
TxFrame == UNCHANGED <<ringVars, relayVars, rateVars, refillVars, connVars,
        poolVars, linkVars, blockVars, sigVars, validateVars, lookupVars,
        parseVars, metricVars, vardiffVars, serverVars, regVars, shareVars>>

\* the message type each thread sends
TypeOf(s) ==
  IF s = "receiver" THEN TBG_MSG_REGISTER
  ELSE IF s = "monitor" THEN TBG_MSG_HEARTBEAT
  ELSE TBG_MSG_BLOCK_FOUND

\* the payload lengths each thread passes: HEARTBEAT has none
LengthsOf(s) == IF s = "monitor" THEN {0} ELSE 1..MaxTxPayload

\* lines 51-58: the header is built and sent; the call returns 0 at once
\* when len is 0
TxHeader(s, len) ==
  /\ tx[s].pc = "idle"
  /\ tx_frames < MaxTxFrames
  /\ tx_frames' = tx_frames + 1
  /\ tx_stream' = Append(tx_stream, [frame |-> tx_frames + 1, part |-> "header",
                                     type |-> TypeOf(s), length |-> len])
  /\ tx' = [tx EXCEPT ![s] =
              IF len > 0
              THEN [pc |-> "payload", frame |-> tx_frames + 1, left |-> len]
              ELSE NoSend]
  /\ TxFrame

\* lines 61-67: one send() of the loop puts n of the bytes left on the
\* connection; after the last one the call returns 0 (the receiver, which
\* registers once, goes on to recv_msg)
TxPayload(s, n) ==
  /\ tx[s].pc = "payload"
  /\ n <= tx[s].left
  /\ tx_stream' = Append(tx_stream, [frame |-> tx[s].frame, part |-> "payload",
                                     type |-> TypeOf(s), length |-> n])
  /\ tx' = [tx EXCEPT ![s] =
              IF n < tx[s].left THEN [@ EXCEPT !.left = @ - n]
              ELSE IF s = "receiver" THEN [NoSend EXCEPT !.pc = "registered"]
              ELSE NoSend]
  /\ UNCHANGED tx_frames
  /\ TxFrame

client_send_msg(s) ==
  \/ \E len \in LengthsOf(s) : TxHeader(s, len)
  \/ \E n \in 1..MaxTxPayload : TxPayload(s, n)

NextTx == \E s \in Senders : client_send_msg(s)

SpecTx == Init /\ [][NextTx]_vars

\* C36: the stream on the connection is a concatenation of whole frames:
\* between two pieces of one frame there is no piece of another
C36_FramesNotInterleaved ==
  \A i, j, k \in 1..Len(tx_stream) :
    (i < j /\ j < k /\ tx_stream[i].frame = tx_stream[k].frame)
      => tx_stream[j].frame = tx_stream[i].frame

(***************************************************************************)
(* The 2-second receive timeout inside a frame: recv_exact and recv_msg of *)
(* tbg_relay_server.c (77-127) with peer_handler (140-151), and of         *)
(* tbg_relay_client.c with receiver_thread (207-225). The other end writes *)
(* whole frames only, header first and payload after.                      *)
(***************************************************************************)
NextTimeout ==
  \/ \E role \in {"peer", "client"} : LinkUp(role, TRUE)
  \/ \E f \in Written : SendHeader(f.type, f.payload)
  \/ SendPayload
  \/ PeerCloses
  \/ reader

SpecTimeout == Init /\ [][NextTimeout]_vars

\* C37: on a connection that carries whole frames only, receive timeouts
\* included, recv_msg never meets bytes that are no header, and every
\* message it returns is a (type, payload) that was sent
C37_TimeoutKeepsFraming ==
  xpc = "handle" =>
    /\ x_ret.status # "framing"
    /\ x_ret.status = "msg" =>
         [type |-> x_ret.type, payload |-> x_ret.payload] \in Written

\* C35: at most one peer_handler thread operates on a slot at any time: a
\* slot is not handed to a new connection while the reader of its previous
\* connection is still running
C35_OneReaderPerSlot == \A i \in Slots : handlers[i] <= 1

====
